---- MODULE Spec2Model ----
(***************************************************************************)
(* A model of the address validation pipeline of address-fixer:            *)
(*   src/normalization/text.py     text normalisation                      *)
(*   src/parsing/address.py        ParsedAddress, parse, parse_or_use_...  *)
(*   src/validation/rules.py       the hard rules                          *)
(*   src/validation/postal_codes.py the reference index and the matcher    *)
(*   src/llm/reviewer.py           the parsing of the model's answers      *)
(*   src/pipeline.py               AddressPipeline.validate                *)
(*                                                                         *)
(* Python strings are TLA+ strings; a character is a string of length 1.   *)
(* Python's None is the string None below, which no input contains.        *)
(***************************************************************************)
EXTENDS Naturals, Sequences, FiniteSets, TLC

None == "<None>"

\* None where the value would otherwise be a list
NoList == <<None>>

(***************************************************************************)
(* Python's str built-ins, as far as the code uses them.                   *)
(***************************************************************************)
Char(s, i) == SubSeq(s, i, i)

CharsOf(s) == {Char(s, i) : i \in 1..Len(s)}

IndexOf(c, s) == CHOOSE i \in 1..Len(s) : Char(s, i) = c

DIGITS == "0123456789"
ASCII_UPPER == "ABCDEFGHIJKLMNOPQRSTUVWXYZ"
ASCII_LOWER == "abcdefghijklmnopqrstuvwxyz"
\* The accented letters of the Spanish alphabet: their upper case, lower
\* case, and the base letter left by NFD decomposition without the marks.
ACCENT_UPPER == "ÁÉÍÓÚÜÑ"
ACCENT_LOWER == "áéíóúüñ"
ACCENT_UPPER_BASE == "AEIOUUN"
ACCENT_LOWER_BASE == "aeiouun"
\* The combining marks (category Mn), which NFD leaves as they are and
\* remove_accents drops. The combining acute accent U+0301 is written by its
\* spacing form, the text of a module being Latin-1.
COMBINING_MARKS == "´"

\* bool(s): a string is truthy when it is neither None nor empty
Truthy(s) == s # None /\ s # ""

ASCII_UPPER_CHARS == CharsOf(ASCII_UPPER)
ASCII_LOWER_CHARS == CharsOf(ASCII_LOWER)
ACCENT_UPPER_CHARS == CharsOf(ACCENT_UPPER)
ACCENT_LOWER_CHARS == CharsOf(ACCENT_LOWER)
SPACE_CHARS == {" ", "\t", "\n", "\r"}
\* str.isdigit is also true of digits outside ASCII: two of them
OTHER_DIGITS == "²³"
DIGIT_CHARS == CharsOf(DIGITS) \cup CharsOf(OTHER_DIGITS)
UPPER_CHARS == ASCII_UPPER_CHARS \cup ACCENT_UPPER_CHARS
LOWER_CHARS == ASCII_LOWER_CHARS \cup ACCENT_LOWER_CHARS

c_isspace(c) == c \in SPACE_CHARS
c_isdigit(c) == c \in DIGIT_CHARS
c_isupper(c) == c \in UPPER_CHARS
c_islower(c) == c \in LOWER_CHARS
c_isalpha(c) == c_isupper(c) \/ c_islower(c)
c_isalnum(c) == c_isalpha(c) \/ c_isdigit(c)

\* str.isdigit(): non-empty and every character a digit
isdigit(s) == Len(s) > 0 /\ \A i \in 1..Len(s) : c_isdigit(Char(s, i))

MinOf(S) == CHOOSE x \in S : \A y \in S : x <= y
MaxOf(S) == CHOOSE x \in S : \A y \in S : x >= y

\* s.strip(): from the first to the last character that is not whitespace
strip(s) ==
    LET kept == {i \in 1..Len(s) : ~c_isspace(Char(s, i))}
    IN  IF kept = {} THEN "" ELSE SubSeq(s, MinOf(kept), MaxOf(kept))

startswith(s, prefix) ==
    Len(s) >= Len(prefix) /\ SubSeq(s, 1, Len(prefix)) = prefix

endswith(s, suffix) ==
    Len(s) >= Len(suffix) /\ SubSeq(s, Len(s) - Len(suffix) + 1, Len(s)) = suffix

\* s.find(sub, from - 1) + 1: where sub first occurs in s at or after
\* position from, 0 when it does not
find(s, sub, from) ==
    LET hits == {i \in from..(Len(s) + 1 - Len(sub)) : SubSeq(s, i, i + Len(sub) - 1) = sub}
    IN  IF hits = {} THEN 0 ELSE MinOf(hits)

\* sub in s
Contains(s, sub) == find(s, sub, 1) # 0

\* s[:n]
Prefix(s, n) == SubSeq(s, 1, IF n < Len(s) THEN n ELSE Len(s))

\* s.split(sep), sep non-empty: the pieces between the occurrences of sep,
\* found left to right
RECURSIVE split_at(_, _, _)
split_at(s, sep, from) ==
    LET i == find(s, sep, from)
    IN  IF i = 0 THEN <<SubSeq(s, from, Len(s))>>
        ELSE <<SubSeq(s, from, i - 1)>> \o split_at(s, sep, i + Len(sep))

split(s, sep) == split_at(s, sep, 1)

\* s.split(sep, 1)[1]: what follows the first occurrence of sep (sep occurs)
after_first(s, sep) == SubSeq(s, find(s, sep, 1) + Len(sep), Len(s))

\* s.split(): the maximal runs of characters that are not whitespace
RECURSIVE split_ws_at(_, _)
split_ws_at(s, from) ==
    LET starts == {i \in from..Len(s) : ~c_isspace(Char(s, i))}
    IN  IF starts = {} THEN <<>>
        ELSE LET b == MinOf(starts)
                 e == MinOf({j \in b..Len(s) : j = Len(s) \/ c_isspace(Char(s, j + 1))})
             IN  <<SubSeq(s, b, e)>> \o split_ws_at(s, e + 1)

split_ws(s) == split_ws_at(s, 1)

\* sep.join(parts)
RECURSIVE join(_, _)
join(sep, parts) ==
    IF Len(parts) = 0 THEN ""
    ELSE IF Len(parts) = 1 THEN parts[1]
    ELSE parts[1] \o sep \o join(sep, Tail(parts))

\* s.replace(old, new), old non-empty: every occurrence, left to right
replace(s, old, new) == join(new, split(s, old))

c_lower(c) ==
    IF c \in ASCII_UPPER_CHARS THEN Char(ASCII_LOWER, IndexOf(c, ASCII_UPPER))
    ELSE IF c \in ACCENT_UPPER_CHARS THEN Char(ACCENT_LOWER, IndexOf(c, ACCENT_UPPER))
    ELSE c

c_upper(c) ==
    IF c \in ASCII_LOWER_CHARS THEN Char(ASCII_UPPER, IndexOf(c, ASCII_LOWER))
    ELSE IF c \in ACCENT_LOWER_CHARS THEN Char(ACCENT_UPPER, IndexOf(c, ACCENT_LOWER))
    ELSE c

\* s.lower() and s.upper(), character by character (the string is halved
\* at each step)
RECURSIVE lower(_)
lower(s) ==
    IF Len(s) = 0 THEN ""
    ELSE IF Len(s) = 1 THEN c_lower(s)
    ELSE lower(SubSeq(s, 1, Len(s) \div 2)) \o lower(SubSeq(s, (Len(s) \div 2) + 1, Len(s)))

RECURSIVE upper(_)
upper(s) ==
    IF Len(s) = 0 THEN ""
    ELSE IF Len(s) = 1 THEN c_upper(s)
    ELSE upper(SubSeq(s, 1, Len(s) \div 2)) \o upper(SubSeq(s, (Len(s) \div 2) + 1, Len(s)))

\* The set of the lists holding each element of S exactly once: what
\* list(set(...)) may return, the iteration order of a set being unspecified.
Orderings(S) ==
    {f \in [1..Cardinality(S) -> S] :
        \A i, j \in 1..Cardinality(S) : i # j => f[i] # f[j]}

SeqToSet(q) == {q[i] : i \in 1..Len(q)}

(***************************************************************************)
(* src/normalization/text.py                                               *)
(***************************************************************************)
c_remove_accent(c) ==
    IF c \in CharsOf(COMBINING_MARKS) THEN ""
    ELSE IF c \in ACCENT_LOWER_CHARS THEN Char(ACCENT_LOWER_BASE, IndexOf(c, ACCENT_LOWER))
    ELSE IF c \in ACCENT_UPPER_CHARS THEN Char(ACCENT_UPPER_BASE, IndexOf(c, ACCENT_UPPER))
    ELSE c

RECURSIVE remove_accents(_)
remove_accents(text) ==
    IF Len(text) = 0 THEN ""
    ELSE IF Len(text) = 1 THEN c_remove_accent(text)
    ELSE remove_accents(SubSeq(text, 1, Len(text) \div 2))
             \o remove_accents(SubSeq(text, (Len(text) \div 2) + 1, Len(text)))

\* A faulty variant of normalize_for_comparison: the case is kept.
normalize_for_comparison_keeps_case(text) ==
    strip(join(" ", split_ws(remove_accents(text))))

normalize_for_comparison(text) ==
    strip(join(" ", split_ws(remove_accents(lower(text)))))

\* A faulty variant of normalize_city: a hyphen separates words.
normalize_city_splits_hyphen(city) ==
    normalize_for_comparison(replace(city, "-", " "))

normalize_city(city) == normalize_for_comparison(city)

STOPWORDS == {"de", "del", "la", "el", "los", "las", "l", "d", "en", "a"}

\* The set that extract_city_variants turns into a list.
city_variant_set(city) ==
    LET normalized == normalize_city(city)
        words == split_ws(replace(replace(normalized, "-", " "), "'", " "))
        meaningful_words == SelectSeq(words, LAMBDA w : w \notin STOPWORDS /\ Len(w) > 2)
    IN  {normalized} \cup SeqToSet(meaningful_words)

\* The lists extract_city_variants may return: list(set(variants)).
extract_city_variants(city) == Orderings(city_variant_set(city))

(***************************************************************************)
(* src/parsing/address.py                                                  *)
(***************************************************************************)
ParsedAddress(raw) ==
    [raw |-> raw, road |-> None, house_number |-> None, unit |-> None,
     city |-> None, postcode |-> None, state_district |-> None, country |-> None]

has_postcode(p) == p.postcode # None /\ Len(p.postcode) > 0
has_city(p) == p.city # None /\ Len(p.city) > 0
has_road(p) == p.road # None /\ Len(p.road) > 0

\* The loop of parse over libpostal's (value, label) pairs; unit_parts is
\* carried beside the result.
RECURSIVE parse_components(_, _, _)
parse_components(components, result, unit_parts) ==
    IF Len(components) = 0
    THEN IF Len(unit_parts) > 0
         THEN [result EXCEPT !.unit = join(", ", unit_parts)]
         ELSE result
    ELSE
        LET value == components[1][1]
            label == components[1][2]
            rest == Tail(components)
        IN  IF label = "road" /\ result.road = None
            THEN parse_components(rest, [result EXCEPT !.road = value], unit_parts)
            ELSE IF label = "house_number" /\ result.house_number = None
            THEN parse_components(rest, [result EXCEPT !.house_number = value], unit_parts)
            ELSE IF label \in {"level", "unit", "staircase"}
            THEN parse_components(rest, result, Append(unit_parts, value))
            ELSE IF label = "city" /\ result.city = None
            THEN parse_components(rest, [result EXCEPT !.city = value], unit_parts)
            ELSE IF label = "postcode" /\ result.postcode = None
            THEN parse_components(rest, [result EXCEPT !.postcode = value], unit_parts)
            ELSE IF label = "state_district" /\ result.state_district = None
            THEN parse_components(rest, [result EXCEPT !.state_district = value], unit_parts)
            ELSE IF label = "country" /\ result.country = None
            THEN parse_components(rest, [result EXCEPT !.country = value], unit_parts)
            ELSE parse_components(rest, result, unit_parts)

\* Whether parse hands the text to libpostal at all.
parse_calls_libpostal(raw_address) ==
    Truthy(raw_address) /\ strip(raw_address) # ""

\* parse, given what libpostal's parse_address returns for the text.
parse(raw_address, components) ==
    IF ~parse_calls_libpostal(raw_address)
    THEN ParsedAddress("")
    ELSE parse_components(components, ParsedAddress(strip(raw_address)), <<>>)

\* A faulty variant of parse_or_use_existing: the caller's values are taken
\* as they come, without strip.
parse_or_use_existing_untrimmed(raw_address, city, postcode, components) ==
    LET parsed == parse(raw_address, components)
        with_city == IF Truthy(city) THEN [parsed EXCEPT !.city = city] ELSE parsed
    IN  IF Truthy(postcode) THEN [with_city EXCEPT !.postcode = postcode] ELSE with_city

parse_or_use_existing(raw_address, city, postcode, components) ==
    LET parsed == parse(raw_address, components)
        with_city ==
            IF Truthy(city) /\ strip(city) # ""
            THEN [parsed EXCEPT !.city = strip(city)]
            ELSE parsed
    IN  IF Truthy(postcode) /\ strip(postcode) # ""
        THEN [with_city EXCEPT !.postcode = strip(postcode)]
        ELSE with_city

(***************************************************************************)
(* src/validation/rules.py                                                 *)
(***************************************************************************)
RuleViolation ==
    [NONE |-> "none", EMPTY_ADDRESS |-> "empty_address", TOO_SHORT |-> "too_short",
     INVALID_POSTCODE_FORMAT |-> "invalid_postcode_format",
     INVALID_POSTCODE_PROVINCE |-> "invalid_postcode_province",
     ONLY_NUMBERS |-> "only_numbers"]

RuleResult(is_valid, violation, message) ==
    [is_valid |-> is_valid, violation |-> violation, message |-> message]

\* f"{i:02d}" for 0 <= i < 100
Format02d(i) == Char(DIGITS, (i \div 10) + 1) \o Char(DIGITS, (i % 10) + 1)

VALID_PROVINCE_CODES == {Format02d(i) : i \in 1..52}

check_postcode_format(postcode) ==
    IF ~Truthy(postcode)
    THEN RuleResult(TRUE, RuleViolation.NONE, "No postcode provided")
    ELSE LET pc_ == strip(postcode)
         IN  IF ~isdigit(pc_)
             THEN RuleResult(FALSE, RuleViolation.INVALID_POSTCODE_FORMAT,
                             "Postcode '" \o pc_ \o "' contains non-numeric characters")
             ELSE IF Len(pc_) # 5
             THEN RuleResult(FALSE, RuleViolation.INVALID_POSTCODE_FORMAT,
                             "Postcode '" \o pc_ \o "' must be exactly 5 digits")
             ELSE RuleResult(TRUE, RuleViolation.NONE, "Valid postcode format")

\* A faulty variant of check_postcode_province: prefix 00 is accepted too.
check_postcode_province_from_zero(postcode) ==
    IF ~Truthy(postcode) \/ Len(postcode) < 2
    THEN RuleResult(TRUE, RuleViolation.NONE, "No postcode to check")
    ELSE LET province == Prefix(postcode, 2)
         IN  IF province \notin VALID_PROVINCE_CODES \cup {"00"}
             THEN RuleResult(FALSE, RuleViolation.INVALID_POSTCODE_PROVINCE,
                             "Province code '" \o province \o "' is not valid (must be 01-52)")
             ELSE RuleResult(TRUE, RuleViolation.NONE, "Valid province code: " \o province)

check_postcode_province(postcode) ==
    IF ~Truthy(postcode) \/ Len(postcode) < 2
    THEN RuleResult(TRUE, RuleViolation.NONE, "No postcode to check")
    ELSE LET province == Prefix(postcode, 2)
         IN  IF province \notin VALID_PROVINCE_CODES
             THEN RuleResult(FALSE, RuleViolation.INVALID_POSTCODE_PROVINCE,
                             "Province code '" \o province \o "' is not valid (must be 01-52)")
             ELSE RuleResult(TRUE, RuleViolation.NONE, "Valid province code: " \o province)

check_not_empty(parsed) ==
    IF ~Truthy(parsed.raw) \/ strip(parsed.raw) = ""
    THEN RuleResult(FALSE, RuleViolation.EMPTY_ADDRESS, "Address is empty")
    ELSE RuleResult(TRUE, RuleViolation.NONE, "Address has content")

MIN_CHARS == 5

check_minimum_length(parsed) ==
    LET meaningful ==
            Cardinality({i \in 1..Len(parsed.raw) : c_isalnum(Char(parsed.raw, i))})
    IN  IF meaningful < MIN_CHARS
        THEN RuleResult(FALSE, RuleViolation.TOO_SHORT,
                        "Address too short (" \o ToString(meaningful)
                            \o " chars, minimum " \o ToString(MIN_CHARS) \o ")")
        ELSE RuleResult(TRUE, RuleViolation.NONE,
                        "Address length OK (" \o ToString(meaningful) \o " chars)")

check_not_only_numbers(parsed) ==
    LET without_postcode ==
            IF Truthy(parsed.postcode)
            THEN replace(parsed.raw, parsed.postcode, "")
            ELSE parsed.raw
        text == strip(replace(replace(replace(without_postcode, ",", ""), ".", ""), "-", ""))
        has_letters == \E i \in 1..Len(text) : c_isalpha(Char(text, i))
    IN  IF ~has_letters
        THEN RuleResult(FALSE, RuleViolation.ONLY_NUMBERS, "Address contains only numbers")
        ELSE RuleResult(TRUE, RuleViolation.NONE, "Address contains letters")

validate_hard_rules(parsed) ==
    << check_not_empty(parsed),
       check_minimum_length(parsed),
       check_not_only_numbers(parsed),
       check_postcode_format(parsed.postcode),
       check_postcode_province(parsed.postcode) >>

get_violations(parsed) ==
    SelectSeq(validate_hard_rules(parsed), LAMBDA r : ~r.is_valid)

(***************************************************************************)
(* src/validation/postal_codes.py                                          *)
(***************************************************************************)
VARIABLES
    codciu,               \* the lines of reference_dir/codciu.txt
    lines_read,           \* how many of them _load_reference_data has read
    province_to_cities,   \* dict: province code -> list of city names
    city_to_province,     \* dict: normalized city name -> province code
    variant_to_cities     \* dict: city variant -> list of city names

index == <<province_to_cities, city_to_province, variant_to_cities>>

ValidationStatus ==
    [VALID |-> "valid", INVALID |-> "invalid", UNKNOWN_CITY |-> "unknown_city",
     MISSING_DATA |-> "missing_data"]

\* postal_codes.ValidationResult
MatchResult(status, message, province_code, expected_cities) ==
    [status |-> status, message |-> message, province_code |-> province_code,
     expected_cities |-> expected_cities]

EmptyDict == [k \in {} |-> None]

\* d.get(key, default)
DictGet(d, key, default) == IF key \in DOMAIN d THEN d[key] ELSE default

\* d[key] = value
DictSet(d, key, value) ==
    [k \in DOMAIN d \cup {key} |-> IF k = key THEN value ELSE d[k]]

\* _split_city_names raises IndexError where it reads the first character
\* of an empty part (parts[0][0], parts[1][0]).
split_city_names_raises(city) ==
    /\ ~endswith(city, ",l'")
    /\ ~Contains(city, ",Las")
    /\ ~Contains(city, " - ")
    /\ Contains(city, "-")
    /\ ~\E c \in CharsOf(split(city, "-")[1]) : c_isspace(c)
    /\ LET parts == split(city, "-")
       IN  /\ Len(parts) = 2
           /\ IF parts[1] = "" THEN TRUE
              ELSE c_isupper(Char(parts[1], 1)) /\ parts[2] = ""

AbsDiff(a, b) == IF a >= b THEN a - b ELSE b - a

split_city_names(city) ==
    IF endswith(city, ",l'")
    THEN LET base == SubSeq(city, 1, Len(city) - 3)
         IN  <<base, "l'" \o base>>
    ELSE IF Contains(city, ",Las")
    THEN LET base == strip(split(city, ",Las")[1])
         IN  <<base, "Las " \o base>>
    ELSE IF Contains(city, " - ")
    THEN LET parts == split(city, " - ")
         IN  [i \in 1..Len(parts) |-> strip(parts[i])]
    ELSE IF Contains(city, "-")
            /\ ~\E c \in CharsOf(split(city, "-")[1]) : c_isspace(c)
    THEN LET parts == split(city, "-")
         IN  IF Len(parts) = 2
                /\ c_isupper(Char(parts[1], 1))
                /\ c_isupper(Char(parts[2], 1))
             THEN IF AbsDiff(Len(parts[1]), Len(parts[2])) < 5 /\ Len(parts[1]) < 12
                  THEN <<strip(parts[1]), strip(parts[2])>>
                  ELSE <<city>>
             ELSE <<city>>
    ELSE <<city>>

\* A faulty variant of load_city_name: a normalized name that is registered
\* keeps its province, and a province lists a name once.
load_city_name_first_wins(idx, province, city_name) ==
    LET p2c == idx.province_to_cities
        c2p == idx.city_to_province
        vs == city_variant_set(city_name)
        v2c == idx.variant_to_cities
    IN  [province_to_cities |->
            IF city_name \in SeqToSet(DictGet(p2c, province, <<>>)) THEN p2c
            ELSE DictSet(p2c, province, Append(DictGet(p2c, province, <<>>), city_name)),
         city_to_province |->
            IF normalize_city(city_name) \in DOMAIN c2p THEN c2p
            ELSE DictSet(c2p, normalize_city(city_name), province),
         variant_to_cities |->
            [v \in DOMAIN v2c \cup vs |->
                IF v \notin vs THEN v2c[v]
                ELSE IF city_name \in SeqToSet(DictGet(v2c, v, <<>>)) THEN v2c[v]
                ELSE Append(DictGet(v2c, v, <<>>), city_name)]]

\* The body of the loop over city_names in _load_reference_data, for one
\* name; idx is the record of the three dicts.
load_city_name(idx, province, city_name) ==
    LET p2c == idx.province_to_cities
        vs == city_variant_set(city_name)
        v2c == idx.variant_to_cities
    IN  [province_to_cities |->
            DictSet(p2c, province, Append(DictGet(p2c, province, <<>>), city_name)),
         city_to_province |->
            DictSet(idx.city_to_province, normalize_city(city_name), province),
         variant_to_cities |->
            [v \in DOMAIN v2c \cup vs |->
                IF v \notin vs THEN v2c[v]
                ELSE IF city_name \in SeqToSet(DictGet(v2c, v, <<>>)) THEN v2c[v]
                ELSE Append(DictGet(v2c, v, <<>>), city_name)]]

\* A faulty variant of load_city_names: only the first name of an entry is
\* registered.
load_city_names_first_only(idx, province, city_names) ==
    IF Len(city_names) = 0 THEN idx
    ELSE load_city_name(idx, province, city_names[1])

RECURSIVE load_city_names(_, _, _)
load_city_names(idx, province, city_names) ==
    IF Len(city_names) = 0 THEN idx
    ELSE load_city_names(load_city_name(idx, province, city_names[1]),
                         province, Tail(city_names))

\* Whether a line of codciu.txt gets past the three `continue`s.
line_is_loaded(raw_line) ==
    LET line == strip(raw_line)
    IN  Len(line) >= 4 /\ strip(SubSeq(line, 4, Len(line))) # ""

\* The body of the loop over the lines of codciu.txt, for one line.
load_line(idx, raw_line) ==
    LET line == strip(raw_line)
        code == Prefix(line, 3)
        city == strip(SubSeq(line, 4, Len(line)))
        province == Prefix(code, 2)
    IN  IF ~line_is_loaded(raw_line) THEN idx
        ELSE load_city_names(idx, province, split_city_names(city))

\* Whether the loop body raises on a line: _split_city_names does.
load_line_raises(raw_line) ==
    /\ line_is_loaded(raw_line)
    /\ split_city_names_raises(strip(SubSeq(strip(raw_line), 4, Len(strip(raw_line)))))

get_cities_for_province(province) == DictGet(province_to_cities, province, <<>>)

get_province_for_city(city) == DictGet(city_to_province, normalize_city(city), None)

\* The loop `for matched_city in matching_cities`: the first city of the
\* list that resolves to the province, or None.
RECURSIVE first_city_in_province(_, _)
first_city_in_province(matching_cities, province) ==
    IF Len(matching_cities) = 0 THEN None
    ELSE LET matched_normalized == normalize_city(matching_cities[1])
         IN  IF matched_normalized \in DOMAIN city_to_province
                /\ city_to_province[matched_normalized] = province
             THEN matching_cities[1]
             ELSE first_city_in_province(Tail(matching_cities), province)

\* A faulty variant of match_variants: a variant that hits only cities of
\* other provinces does not end the search, the later variants are tried.
RECURSIVE match_variants_tries_all(_, _, _)
match_variants_tries_all(city, province, city_variants) ==
    IF Len(city_variants) = 0
    THEN MatchResult(ValidationStatus.UNKNOWN_CITY,
                     "City '" \o city \o "' not found in database (province "
                         \o province \o ")",
                     province, DictGet(province_to_cities, province, <<>>))
    ELSE IF /\ city_variants[1] \in DOMAIN variant_to_cities
            /\ first_city_in_province(variant_to_cities[city_variants[1]],
                                      province) # None
    THEN MatchResult(ValidationStatus.VALID,
                     "City '" \o city \o "' matches '"
                         \o first_city_in_province(variant_to_cities[city_variants[1]],
                                                   province)
                         \o "' in province " \o province,
                     province, NoList)
    ELSE IF /\ city_variants[1] \in DOMAIN variant_to_cities
            /\ Len(city_variants) = 1
    THEN MatchResult(ValidationStatus.INVALID,
                     "City '" \o city \o "' found but not in province " \o province,
                     province, DictGet(province_to_cities, province, <<>>))
    ELSE match_variants_tries_all(city, province, Tail(city_variants))

\* A faulty variant of match_variants: UNKNOWN_CITY is returned bare, like
\* the results of lines 175-179.
RECURSIVE match_variants_bare_unknown(_, _, _)
match_variants_bare_unknown(city, province, city_variants) ==
    IF Len(city_variants) = 0
    THEN MatchResult(ValidationStatus.UNKNOWN_CITY,
                     "City '" \o city \o "' not found in database (province "
                         \o province \o ")",
                     province, NoList)
    ELSE IF city_variants[1] \in DOMAIN variant_to_cities
    THEN LET matched_city ==
                 first_city_in_province(variant_to_cities[city_variants[1]], province)
         IN  IF matched_city # None
             THEN MatchResult(ValidationStatus.VALID,
                              "City '" \o city \o "' matches '" \o matched_city
                                  \o "' in province " \o province,
                              province, NoList)
             ELSE MatchResult(ValidationStatus.INVALID,
                              "City '" \o city \o "' found but not in province "
                                  \o province,
                              province, DictGet(province_to_cities, province, <<>>))
    ELSE match_variants_bare_unknown(city, province, Tail(city_variants))

\* The loop `for variant in city_variants` and what follows it.
RECURSIVE match_variants(_, _, _)
match_variants(city, province, city_variants) ==
    IF Len(city_variants) = 0
    THEN MatchResult(ValidationStatus.UNKNOWN_CITY,
                     "City '" \o city \o "' not found in database (province "
                         \o province \o ")",
                     province, DictGet(province_to_cities, province, <<>>))
    ELSE IF city_variants[1] \in DOMAIN variant_to_cities
    THEN LET matched_city ==
                 first_city_in_province(variant_to_cities[city_variants[1]], province)
         IN  IF matched_city # None
             THEN MatchResult(ValidationStatus.VALID,
                              "City '" \o city \o "' matches '" \o matched_city
                                  \o "' in province " \o province,
                              province, NoList)
             ELSE MatchResult(ValidationStatus.INVALID,
                              "City '" \o city \o "' found but not in province "
                                  \o province,
                              province, DictGet(province_to_cities, province, <<>>))
    ELSE match_variants(city, province, Tail(city_variants))

\* PostalCodeValidator.validate gets as far as line 202 and calls
\* extract_city_variants: no early return and no exact match.
calls_extract_city_variants(city, postal_code) ==
    /\ Truthy(city) /\ strip(city) # ""
    /\ Truthy(postal_code) /\ strip(postal_code) # ""
    /\ isdigit(strip(postal_code)) /\ Len(strip(postal_code)) = 5
    /\ Prefix(strip(postal_code), 2) \in DOMAIN province_to_cities
    /\ normalize_city(city) \notin DOMAIN city_to_province

\* A faulty variant of postal_validate: a province the index does not know
\* is reported as missing data.
postal_validate_province_as_missing(city, postal_code, city_variants) ==
    IF ~Truthy(city) \/ strip(city) = ""
    THEN MatchResult(ValidationStatus.MISSING_DATA, "City is empty", None, NoList)
    ELSE IF ~Truthy(postal_code) \/ strip(postal_code) = ""
    THEN MatchResult(ValidationStatus.MISSING_DATA, "Postal code is empty", None, NoList)
    ELSE
        LET pcode == strip(postal_code)
            province == Prefix(pcode, 2)
            normalized_city == normalize_city(city)
        IN  IF ~isdigit(pcode) \/ Len(pcode) # 5
            THEN MatchResult(ValidationStatus.MISSING_DATA,
                             "Invalid postal code format: " \o pcode, None, NoList)
            ELSE IF province \notin DOMAIN province_to_cities
            THEN MatchResult(ValidationStatus.MISSING_DATA,
                             "Unknown province code: " \o province, None, NoList)
            ELSE IF normalized_city \in DOMAIN city_to_province
            THEN LET expected_province == city_to_province[normalized_city]
                 IN  IF expected_province = province
                     THEN MatchResult(ValidationStatus.VALID,
                                      "City matches postal code province", province, NoList)
                     ELSE MatchResult(ValidationStatus.INVALID,
                                      "City '" \o city \o "' belongs to province "
                                          \o expected_province \o ", not " \o province,
                                      province,
                                      DictGet(province_to_cities, province, <<>>))
            ELSE match_variants(city, province, city_variants)

\* A faulty variant of postal_validate: a mismatch on the exact path carries
\* the cities of the province the city belongs to.
postal_validate_cities_of_expected(city, postal_code, city_variants) ==
    IF ~Truthy(city) \/ strip(city) = ""
    THEN MatchResult(ValidationStatus.MISSING_DATA, "City is empty", None, NoList)
    ELSE IF ~Truthy(postal_code) \/ strip(postal_code) = ""
    THEN MatchResult(ValidationStatus.MISSING_DATA, "Postal code is empty", None, NoList)
    ELSE
        LET pcode == strip(postal_code)
            province == Prefix(pcode, 2)
            normalized_city == normalize_city(city)
        IN  IF ~isdigit(pcode) \/ Len(pcode) # 5
            THEN MatchResult(ValidationStatus.MISSING_DATA,
                             "Invalid postal code format: " \o pcode, None, NoList)
            ELSE IF province \notin DOMAIN province_to_cities
            THEN MatchResult(ValidationStatus.INVALID,
                             "Unknown province code: " \o province, province, NoList)
            ELSE IF normalized_city \in DOMAIN city_to_province
            THEN LET expected_province == city_to_province[normalized_city]
                 IN  IF expected_province = province
                     THEN MatchResult(ValidationStatus.VALID,
                                      "City matches postal code province", province, NoList)
                     ELSE MatchResult(ValidationStatus.INVALID,
                                      "City '" \o city \o "' belongs to province "
                                          \o expected_province \o ", not " \o province,
                                      province,
                                      DictGet(province_to_cities, expected_province,
                                              <<>>))
            ELSE match_variants(city, province, city_variants)

\* PostalCodeValidator.validate, given the list extract_city_variants(city)
\* returns if it is called.
postal_validate(city, postal_code, city_variants) ==
    IF ~Truthy(city) \/ strip(city) = ""
    THEN MatchResult(ValidationStatus.MISSING_DATA, "City is empty", None, NoList)
    ELSE IF ~Truthy(postal_code) \/ strip(postal_code) = ""
    THEN MatchResult(ValidationStatus.MISSING_DATA, "Postal code is empty", None, NoList)
    ELSE
        LET pcode == strip(postal_code)
            province == Prefix(pcode, 2)
            normalized_city == normalize_city(city)
        IN  IF ~isdigit(pcode) \/ Len(pcode) # 5
            THEN MatchResult(ValidationStatus.MISSING_DATA,
                             "Invalid postal code format: " \o pcode, None, NoList)
            ELSE IF province \notin DOMAIN province_to_cities
            THEN MatchResult(ValidationStatus.INVALID,
                             "Unknown province code: " \o province, province, NoList)
            ELSE IF normalized_city \in DOMAIN city_to_province
            THEN LET expected_province == city_to_province[normalized_city]
                 IN  IF expected_province = province
                     THEN MatchResult(ValidationStatus.VALID,
                                      "City matches postal code province", province, NoList)
                     ELSE MatchResult(ValidationStatus.INVALID,
                                      "City '" \o city \o "' belongs to province "
                                          \o expected_province \o ", not " \o province,
                                      province,
                                      DictGet(province_to_cities, province, <<>>))
            ELSE match_variants(city, province, city_variants)

(***************************************************************************)
(* src/llm/reviewer.py: what AddressReviewer makes of the model's answer.  *)
(* The model (mlx_lm load and generate) is outside the repository: its     *)
(* answer is any text of MODEL_ANSWERS, or an exception.                   *)
(***************************************************************************)
AddressIntent ==
    [VALID_ATTEMPT |-> "valid_attempt", GIBBERISH |-> "gibberish",
     REFUSAL |-> "refusal", TEST_DATA |-> "test_data", UNCLEAR |-> "unclear"]

\* The first loop of check_nonsense, over the lines of response.upper().
RECURSIVE nonsense_lines(_, _, _)
nonsense_lines(lines, intent, confidence) ==
    IF Len(lines) = 0 THEN [intent |-> intent, confidence |-> confidence]
    ELSE LET line == lines[1]
         IN  IF Contains(line, "CLASSIFICATION:")
             THEN nonsense_lines(Tail(lines),
                      IF Contains(line, "VALID_ATTEMPT") THEN AddressIntent.VALID_ATTEMPT
                      ELSE IF Contains(line, "GIBBERISH") THEN AddressIntent.GIBBERISH
                      ELSE IF Contains(line, "REFUSAL") THEN AddressIntent.REFUSAL
                      ELSE IF Contains(line, "TEST_DATA") THEN AddressIntent.TEST_DATA
                      ELSE intent,
                      confidence)
             ELSE IF Contains(line, "CONFIDENCE:")
             THEN nonsense_lines(Tail(lines), intent,
                      IF Contains(line, "HIGH") THEN "high"
                      ELSE IF Contains(line, "MEDIUM") THEN "medium"
                      ELSE IF Contains(line, "LOW") THEN "low"
                      ELSE confidence)
             ELSE nonsense_lines(Tail(lines), intent, confidence)

\* The loop "Extract reason if present" of both methods, over the lines of
\* the response; explanation is the value it starts from.
RECURSIVE extract_reason(_, _)
extract_reason(lines, explanation) ==
    IF Len(lines) = 0 THEN explanation
    ELSE IF startswith(upper(lines[1]), "REASON:")
         THEN strip(after_first(lines[1], ":"))
         ELSE extract_reason(Tail(lines), explanation)

\* check_nonsense from the response of _generate on
check_nonsense(response) ==
    LET parsed == nonsense_lines(split(upper(response), "\n"),
                                 AddressIntent.UNCLEAR, "low")
    IN  [intent |-> parsed.intent, confidence |-> parsed.confidence,
         explanation |-> extract_reason(split(response, "\n"), response)]

\* The inner loop of validate_city: the first line of the response that
\* starts with NORMALIZED: decides the name.
RECURSIVE normalized_from(_, _)
normalized_from(orig_lines, normalized) ==
    IF Len(orig_lines) = 0 THEN normalized
    ELSE IF startswith(upper(orig_lines[1]), "NORMALIZED:")
         THEN LET norm_value == strip(after_first(orig_lines[1], ":"))
              IN  IF lower(norm_value) # "none" THEN norm_value ELSE normalized
         ELSE normalized_from(Tail(orig_lines), normalized)

\* The first loop of validate_city, over the lines of response.upper().
RECURSIVE city_lines(_, _, _, _)
city_lines(lines, response, is_valid, normalized) ==
    IF Len(lines) = 0 THEN [is_valid |-> is_valid, normalized |-> normalized]
    ELSE LET line == lines[1]
         IN  IF Contains(line, "VALID:")
             THEN city_lines(Tail(lines), response, Contains(line, "YES"), normalized)
             ELSE IF Contains(line, "NORMALIZED:")
             THEN city_lines(Tail(lines), response, is_valid,
                             normalized_from(split(response, "\n"), normalized))
             ELSE city_lines(Tail(lines), response, is_valid, normalized)

\* validate_city from the response of _generate on
validate_city(response) ==
    LET parsed == city_lines(split(upper(response), "\n"), response, FALSE, None)
    IN  [is_valid |-> parsed.is_valid, normalized_city |-> parsed.normalized,
         explanation |-> extract_reason(split(response, "\n"), response)]

(***************************************************************************)
(* src/pipeline.py                                                         *)
(***************************************************************************)
VARIABLES
    use_llm,              \* AddressPipeline.use_llm
    reviewer_constructed, \* AddressPipeline._llm_reviewer is not None
    model_loaded,         \* AddressReviewer.model is not None
    pc,                   \* where the running validate call stands
    result,               \* validate's local `result` (with result.parsed)
    error,                \* the collaborator whose exception left validate, or None
    calls,                \* the collaborators this validate call has invoked, in order
    applied               \* the last call made to a component from outside validate

vars ==
    <<codciu, lines_read, index, use_llm, reviewer_constructed, model_loaded,
      pc, result, error, calls, applied>>

AddressStatus ==
    [VALID |-> "valid", VALID_NORMALIZED |-> "valid_normalized",
     INVALID_FORMAT |-> "invalid_format", INVALID_MISMATCH |-> "invalid_mismatch",
     NONSENSE |-> "nonsense", UNKNOWN |-> "unknown", NEEDS_REVIEW |-> "needs_review"]

\* The ValidationResult validate constructs before stage 2.
ValidationResult(address, city, postcode, parsed) ==
    [raw_address |-> address, raw_city |-> city, raw_postcode |-> postcode,
     parsed |-> parsed, status |-> AddressStatus.UNKNOWN, message |-> "",
     normalized_city |-> None, normalized_postcode |-> None,
     rule_violations |-> <<>>, city_postal_status |-> None,
     llm_intent |-> None, llm_confidence |-> None]

\* An entry of calls: the collaborator, its arguments, whether it raised,
\* what it returned, and for the reviewer's methods the text the language
\* model answered.
Call(fn, args, ret, answer) ==
    [fn |-> fn, args |-> args, raised |-> FALSE, ret |-> ret, answer |-> answer]

RaisedCall(fn, args) ==
    [fn |-> fn, args |-> args, raised |-> TRUE, ret |-> None, answer |-> None]

\* --- the inputs of the model -------------------------------------------
\* codciu.txt: a table that loads, and one with a line that makes
\* _split_city_names raise
REFERENCE_LINES ==
    << "28xMadrid", "286Pozuelo de Alarcón", "288Alcalá de Henares",
       "08xBarcelona", "083Hospitalet de Llobregat,l'", "25xLleida",
       "03xAlacant-Alicante", "20xDonostia - San Sebastian",
       "01xVitoria-Gasteiz", "35xPalmas de Gran Canaria,Las",
       "", "29", "29x  ", "29xMálaga", "16xAlarcón", "285Rivas-Vaciamadrid",
       "46xAlicante", "080Barcelona" >>

BROKEN_LINES == << "28xMadrid", "46xValència-", "08xBarcelona" >>

REFERENCE_TABLES == {REFERENCE_LINES, BROKEN_LINES}

\* The address, city and postcode arguments of validate.
ADDRESSES ==
    { None, "", "   ", "12", "ab 1", "12345 678", "99x01 5", "asdfgh",
      "Calle Sol 12" }

CITIES == { "", "  ", " Madrid ", "Gotham" }

POSTCODES == { None, "", "28001", " 08001 ", "99x01", "53001", "280" }

\* What libpostal's parse_address may return: (value, label) pairs.
LIBPOSTAL_OUTPUTS ==
    { <<>>,
      << <<"calle sol", "road">>, <<"12", "house_number">> >>,
      << <<"calle sol", "road">>, <<"pozuelo", "city">>, <<"28223", "postcode">> >>,
      << <<" ", "city">>, <<"28001", "postcode">> >>,
      << <<"asdfgh", "house">>, <<"lérida", "city">> >>,
      << <<"", "road">>, <<"lleida", "city">>, <<"madrid", "city">>,
         <<"25001", "postcode">>, <<"28001", "postcode">>,
         <<"2", "level">>, <<"b", "unit">> >>,
      << <<"vitoria alcala", "city">>, <<"28001", "postcode">> >> }

\* What the language model may answer to a prompt.
MODEL_ANSWERS ==
    { "CLASSIFICATION: VALID_ATTEMPT\nCONFIDENCE: high\nREASON: real street",
      "classification: gibberish\nconfidence: medium",
      "CLASSIFICATION: TEST_DATA\nREASON: placeholder",
      "CLASSIFICATION: REFUSAL\nCONFIDENCE: low\nREASON: no quiero",
      "",
      "VALID: yes\nNORMALIZED: Lleida\nREASON: variant ",
      " VALID: YES\nNORMALIZED: none\n",
      "VALID: no\nNORMALIZED: Madrid\nREASON: other province",
      "VALID: yes\nNORMALIZED:" }

\* A faulty variant of violation_message: the two postcode rules are looked at first.
violation_message_postcode_first(violation_types) ==
    IF RuleViolation.INVALID_POSTCODE_PROVINCE \in violation_types
    THEN "Invalid postal code province (must be 01-52)"
    ELSE IF RuleViolation.INVALID_POSTCODE_FORMAT \in violation_types
    THEN "Invalid postal code format"
    ELSE IF RuleViolation.EMPTY_ADDRESS \in violation_types
    THEN "Address is empty"
    ELSE IF RuleViolation.TOO_SHORT \in violation_types
    THEN "Address too short"
    ELSE IF RuleViolation.ONLY_NUMBERS \in violation_types
    THEN "Address contains only numbers"
    ELSE None

\* --- stage 2: lines 117-148 --------------------------------------------
\* The message of the first `if ... in violation_types` that matches, or
\* None when none does.
violation_message(violation_types) ==
    IF RuleViolation.EMPTY_ADDRESS \in violation_types
    THEN "Address is empty"
    ELSE IF RuleViolation.TOO_SHORT \in violation_types
    THEN "Address too short"
    ELSE IF RuleViolation.ONLY_NUMBERS \in violation_types
    THEN "Address contains only numbers"
    ELSE IF RuleViolation.INVALID_POSTCODE_FORMAT \in violation_types
    THEN "Invalid postal code format"
    ELSE IF RuleViolation.INVALID_POSTCODE_PROVINCE \in violation_types
    THEN "Invalid postal code province (must be 01-52)"
    ELSE None

violation_types_of(violations) ==
    {violations[i].violation : i \in 1..Len(violations)}

\* A faulty variant of text_to_check: the raw address is checked even when a road
\* was parsed.
text_to_check_raw_address(res) == res.raw_address

\* --- stage 3: lines 150-170 --------------------------------------------
text_to_check(res) ==
    IF has_road(res.parsed) THEN res.parsed.road ELSE res.raw_address

\* A faulty variant of nonsense_check_enabled: use_llm is not consulted.
nonsense_check_enabled_without_flag(res) == Truthy(text_to_check(res))

\* `if self.use_llm and text_to_check`
nonsense_check_enabled(res) == use_llm /\ Truthy(text_to_check(res))

NONSENSE_INTENTS ==
    {AddressIntent.GIBBERISH, AddressIntent.TEST_DATA, AddressIntent.REFUSAL}

\* The result after check_nonsense returned nonsense_result.
after_nonsense(res, nonsense_result) ==
    LET recorded == [res EXCEPT !.llm_intent = nonsense_result.intent,
                                !.llm_confidence = nonsense_result.confidence]
    IN  IF nonsense_result.intent \in {AddressIntent.GIBBERISH, AddressIntent.TEST_DATA}
        THEN [recorded EXCEPT
                 !.status = AddressStatus.NONSENSE,
                 !.message = "Street address is " \o nonsense_result.intent \o ": "
                                 \o nonsense_result.explanation]
        ELSE IF nonsense_result.intent = AddressIntent.REFUSAL
        THEN [recorded EXCEPT
                 !.status = AddressStatus.NONSENSE,
                 !.message = "User refused to provide address: "
                                 \o nonsense_result.explanation]
        ELSE recorded

\* --- stage 4: lines 172-213 --------------------------------------------
matcher_runs(res) == has_city(res.parsed) /\ has_postcode(res.parsed)

\* A faulty variant of after_matcher: on VALID the caller's raw values are reported
\* as the normalized ones.
after_matcher_raw_values(res, city_result) ==
    LET recorded == [res EXCEPT !.city_postal_status = city_result.status]
    IN  IF city_result.status = ValidationStatus.VALID
        THEN [recorded EXCEPT
                 !.status = AddressStatus.VALID,
                 !.message = "City matches postal code province",
                 !.normalized_city = res.raw_city,
                 !.normalized_postcode = res.raw_postcode]
        ELSE IF city_result.status = ValidationStatus.INVALID
        THEN [recorded EXCEPT
                 !.status = AddressStatus.INVALID_MISMATCH,
                 !.message = city_result.message]
        ELSE IF city_result.status = ValidationStatus.UNKNOWN_CITY /\ ~use_llm
        THEN [recorded EXCEPT
                 !.status = AddressStatus.NEEDS_REVIEW,
                 !.message = "City not found in database"]
        ELSE recorded

\* A faulty variant of after_matcher: with the LLM enabled a mismatch is put up for
\* review instead of being rejected.
after_matcher_mismatch_reviewed(res, city_result) ==
    LET recorded == [res EXCEPT !.city_postal_status = city_result.status]
    IN  IF city_result.status = ValidationStatus.VALID
        THEN [recorded EXCEPT
                 !.status = AddressStatus.VALID,
                 !.message = "City matches postal code province",
                 !.normalized_city = res.parsed.city,
                 !.normalized_postcode = res.parsed.postcode]
        ELSE IF city_result.status = ValidationStatus.INVALID /\ ~use_llm
        THEN [recorded EXCEPT
                 !.status = AddressStatus.INVALID_MISMATCH,
                 !.message = city_result.message]
        ELSE IF city_result.status \in {ValidationStatus.INVALID,
                                        ValidationStatus.UNKNOWN_CITY}
        THEN [recorded EXCEPT
                 !.status = AddressStatus.NEEDS_REVIEW,
                 !.message = "City not found in database"]
        ELSE recorded

\* The result after the matcher returned city_result, as far as stage 4
\* decides it without the reviewer.
after_matcher(res, city_result) ==
    LET recorded == [res EXCEPT !.city_postal_status = city_result.status]
    IN  IF city_result.status = ValidationStatus.VALID
        THEN [recorded EXCEPT
                 !.status = AddressStatus.VALID,
                 !.message = "City matches postal code province",
                 !.normalized_city = res.parsed.city,
                 !.normalized_postcode = res.parsed.postcode]
        ELSE IF city_result.status = ValidationStatus.INVALID
        THEN [recorded EXCEPT
                 !.status = AddressStatus.INVALID_MISMATCH,
                 !.message = city_result.message]
        ELSE IF city_result.status = ValidationStatus.UNKNOWN_CITY /\ ~use_llm
        THEN [recorded EXCEPT
                 !.status = AddressStatus.NEEDS_REVIEW,
                 !.message = "City not found in database"]
        ELSE recorded

\* A faulty variant of pc_after_matcher: every matcher result but VALID is handed
\* to the LLM when it is enabled.
pc_after_matcher_always_arbitrates(city_result) ==
    IF city_result.status = ValidationStatus.VALID
    THEN "returned"
    ELSE IF use_llm THEN "arbitration" ELSE "returned"

\* Where validate goes after the matcher returned city_result.
pc_after_matcher(city_result) ==
    IF city_result.status \in {ValidationStatus.VALID, ValidationStatus.INVALID}
    THEN "returned"
    ELSE IF city_result.status = ValidationStatus.UNKNOWN_CITY
    THEN (IF use_llm THEN "arbitration" ELSE "returned")
    ELSE "fallback"

\* The arguments of llm_reviewer.validate_city (lines 192-197).
arbitration_args(res) ==
    << res.parsed.city, res.parsed.postcode,
       get_cities_for_province(Prefix(res.parsed.postcode, 2)) >>

\* A faulty variant of after_arbitration: the suggested name is taken over whatever
\* the verdict, and without the `or parsed.city`.
after_arbitration_keeps_suggestion(res, llm_result) ==
    LET recorded == [res EXCEPT !.llm_confidence = "city_validation",
                                !.normalized_city = llm_result.normalized_city]
    IN  IF llm_result.is_valid
        THEN [recorded EXCEPT
                 !.status = AddressStatus.VALID_NORMALIZED,
                 !.message = "City validated by LLM: " \o llm_result.explanation,
                 !.normalized_postcode = res.parsed.postcode]
        ELSE [recorded EXCEPT
                 !.status = AddressStatus.NEEDS_REVIEW,
                 !.message = "City unknown: " \o llm_result.explanation]

\* The result after validate_city returned llm_result (lines 198-209).
after_arbitration(res, llm_result) ==
    LET recorded == [res EXCEPT !.llm_confidence = "city_validation"]
    IN  IF llm_result.is_valid
        THEN [recorded EXCEPT
                 !.status = AddressStatus.VALID_NORMALIZED,
                 !.message = "City validated by LLM: " \o llm_result.explanation,
                 !.normalized_city =
                     IF Truthy(llm_result.normalized_city)
                     THEN llm_result.normalized_city
                     ELSE res.parsed.city,
                 !.normalized_postcode = res.parsed.postcode]
        ELSE [recorded EXCEPT
                 !.status = AddressStatus.NEEDS_REVIEW,
                 !.message = "City unknown: " \o llm_result.explanation]

\* A faulty variant of final_fallback: the last `if result.status == UNKNOWN` is
\* missing.
final_fallback_without_default(res) ==
    IF use_llm /\ res.status = AddressStatus.UNKNOWN
    THEN IF has_city(res.parsed) \/ has_postcode(res.parsed)
         THEN [res EXCEPT !.status = AddressStatus.VALID,
                          !.message = "Appears to be a valid address attempt"]
         ELSE [res EXCEPT !.status = AddressStatus.NEEDS_REVIEW,
                          !.message = "Valid attempt but missing city/postcode"]
    ELSE res

\* A faulty variant of final_fallback: `and` for the `or` of line 218.
final_fallback_needs_both(res) ==
    LET llm_fallback ==
            IF use_llm /\ res.status = AddressStatus.UNKNOWN
            THEN IF has_city(res.parsed) /\ has_postcode(res.parsed)
                 THEN [res EXCEPT !.status = AddressStatus.VALID,
                                  !.message = "Appears to be a valid address attempt"]
                 ELSE [res EXCEPT !.status = AddressStatus.NEEDS_REVIEW,
                                  !.message = "Valid attempt but missing city/postcode"]
            ELSE res
    IN  IF llm_fallback.status = AddressStatus.UNKNOWN
        THEN [llm_fallback EXCEPT !.status = AddressStatus.NEEDS_REVIEW,
                                  !.message = "Could not validate without LLM"]
        ELSE llm_fallback

\* --- stage 5: lines 215-230 --------------------------------------------
\* A faulty variant of final_fallback: the VALID of stage 5 reports the parsed
\* values as normalized ones.
final_fallback_normalizes(res) ==
    LET llm_fallback ==
            IF use_llm /\ res.status = AddressStatus.UNKNOWN
            THEN IF has_city(res.parsed) \/ has_postcode(res.parsed)
                 THEN [res EXCEPT !.status = AddressStatus.VALID,
                                  !.message = "Appears to be a valid address attempt",
                                  !.normalized_city = res.parsed.city,
                                  !.normalized_postcode = res.parsed.postcode]
                 ELSE [res EXCEPT !.status = AddressStatus.NEEDS_REVIEW,
                                  !.message = "Valid attempt but missing city/postcode"]
            ELSE res
    IN  IF llm_fallback.status = AddressStatus.UNKNOWN
        THEN [llm_fallback EXCEPT !.status = AddressStatus.NEEDS_REVIEW,
                                  !.message = "Could not validate without LLM"]
        ELSE llm_fallback

\* Stage 5 (lines 215-230).
final_fallback(res) ==
    LET llm_fallback ==
            IF use_llm /\ res.status = AddressStatus.UNKNOWN
            THEN IF has_city(res.parsed) \/ has_postcode(res.parsed)
                 THEN [res EXCEPT !.status = AddressStatus.VALID,
                                  !.message = "Appears to be a valid address attempt"]
                 ELSE [res EXCEPT !.status = AddressStatus.NEEDS_REVIEW,
                                  !.message = "Valid attempt but missing city/postcode"]
            ELSE res
    IN  IF llm_fallback.status = AddressStatus.UNKNOWN
        THEN [llm_fallback EXCEPT !.status = AddressStatus.NEEDS_REVIEW,
                                  !.message = "Could not validate without LLM"]
        ELSE llm_fallback

\* --- the state machine -------------------------------------------------
NoResult == ValidationResult("", "", "", ParsedAddress(""))

\* An entry of applied: the function called, its arguments, the list
\* extract_city_variants returned inside it (NoList if it was not called) and
\* the value returned.
Application(fn, args, city_variants, ret) ==
    [fn |-> fn, args |-> args, city_variants |-> city_variants, ret |-> ret]

NoApplication == Application(None, <<>>, NoList, None)

\* AddressPipeline.__init__ up to the call of _load_reference_data.
Init ==
    /\ codciu \in REFERENCE_TABLES
    /\ lines_read = 0
    /\ province_to_cities = EmptyDict
    /\ city_to_province = EmptyDict
    /\ variant_to_cities = EmptyDict
    /\ use_llm \in BOOLEAN
    /\ reviewer_constructed = FALSE
    /\ model_loaded = FALSE
    /\ pc = "loading"
    /\ result = NoResult
    /\ error = None
    /\ calls = <<>>
    /\ applied = NoApplication

\* One turn of the loop over the lines of codciu.txt.
LoadLine ==
    /\ pc = "loading"
    /\ lines_read < Len(codciu)
    /\ ~load_line_raises(codciu[lines_read + 1])
    /\ LET idx == load_line([province_to_cities |-> province_to_cities,
                             city_to_province |-> city_to_province,
                             variant_to_cities |-> variant_to_cities],
                            codciu[lines_read + 1])
       IN  /\ province_to_cities' = idx.province_to_cities
           /\ city_to_province' = idx.city_to_province
           /\ variant_to_cities' = idx.variant_to_cities
    /\ lines_read' = lines_read + 1
    /\ UNCHANGED <<applied, codciu, use_llm, reviewer_constructed, model_loaded, pc, result,
                   error, calls>>

\* _split_city_names raises on the line: the exception leaves __init__ and
\* there is no pipeline.
LoadRaises ==
    /\ pc = "loading"
    /\ lines_read < Len(codciu)
    /\ load_line_raises(codciu[lines_read + 1])
    /\ pc' = "load_failed"
    /\ error' = "IndexError"
    /\ UNCHANGED <<applied, codciu, lines_read, index, use_llm, reviewer_constructed,
                   model_loaded, result, calls>>

\* The file is read: __init__ returns the pipeline.
Constructed ==
    /\ pc = "loading"
    /\ lines_read = Len(codciu)
    /\ pc' = "idle"
    /\ UNCHANGED <<applied, codciu, lines_read, index, use_llm, reviewer_constructed,
                   model_loaded, result, error, calls>>

\* validate is called and stage 1 (parse_or_use_existing) returns.
Validate ==
    /\ pc = "idle"
    /\ \E address \in ADDRESSES, city \in CITIES, postcode \in POSTCODES :
         \E components \in
                 (IF parse_calls_libpostal(address) THEN LIBPOSTAL_OUTPUTS ELSE {<<>>}) :
            /\ result' = ValidationResult(address, city, postcode,
                            parse_or_use_existing(address, city, postcode, components))
            /\ calls' = IF parse_calls_libpostal(address)
                        THEN <<Call("parse_address", <<strip(address)>>, components, None)>>
                        ELSE <<>>
    /\ pc' = "rules"
    /\ UNCHANGED <<applied, codciu, lines_read, index, use_llm, reviewer_constructed,
                   model_loaded, error>>

\* validate is called and libpostal raises inside parse.
ValidateParserRaises ==
    /\ pc = "idle"
    /\ \E address \in ADDRESSES :
        /\ parse_calls_libpostal(address)
        /\ calls' = <<RaisedCall("parse_address", <<strip(address)>>)>>
    /\ error' = "parse_address"
    /\ pc' = "raised"
    /\ UNCHANGED <<applied, codciu, lines_read, index, use_llm, reviewer_constructed,
                   model_loaded, result>>

\* Stage 2: hard validation rules.
HardRules ==
    /\ pc = "rules"
    /\ LET violations == get_violations(result.parsed)
           listed == [result EXCEPT !.rule_violations =
                         [i \in 1..Len(violations) |-> violations[i].message]]
           message == violation_message(violation_types_of(violations))
       IN  IF Len(violations) > 0 /\ message # None
           THEN /\ result' = [listed EXCEPT !.status = AddressStatus.INVALID_FORMAT,
                                            !.message = message]
                /\ pc' = "returned"
           ELSE /\ result' = listed
                /\ pc' = "nonsense"
    /\ UNCHANGED <<applied, codciu, lines_read, index, use_llm, reviewer_constructed,
                   model_loaded, error, calls>>

\* Stage 3 is bypassed.
NonsenseSkipped ==
    /\ pc = "nonsense"
    /\ ~nonsense_check_enabled(result)
    /\ pc' = "matcher"
    /\ UNCHANGED <<applied, codciu, lines_read, index, use_llm, reviewer_constructed,
                   model_loaded, result, error, calls>>

\* Stage 3: the reviewer is built on first use, the model loaded on first
\* use, and check_nonsense returns.
NonsenseChecked ==
    /\ pc = "nonsense"
    /\ nonsense_check_enabled(result)
    /\ reviewer_constructed' = TRUE
    /\ model_loaded' = TRUE
    /\ \E answer \in MODEL_ANSWERS :
         LET nonsense_result == check_nonsense(strip(answer))
         IN  /\ calls' = Append(calls, Call("check_nonsense", <<text_to_check(result)>>,
                                            nonsense_result, answer))
             /\ result' = after_nonsense(result, nonsense_result)
             /\ pc' = IF nonsense_result.intent \in NONSENSE_INTENTS
                      THEN "returned" ELSE "matcher"
    /\ UNCHANGED <<applied, codciu, lines_read, index, use_llm, error>>

\* Stage 3: load or generate raises inside check_nonsense.
NonsenseRaises ==
    /\ pc = "nonsense"
    /\ nonsense_check_enabled(result)
    /\ reviewer_constructed' = TRUE
    /\ model_loaded' \in {model_loaded, TRUE}
    /\ calls' = Append(calls, RaisedCall("check_nonsense", <<text_to_check(result)>>))
    /\ error' = "check_nonsense"
    /\ pc' = "raised"
    /\ UNCHANGED <<applied, codciu, lines_read, index, use_llm, result>>

\* Stage 4 is skipped: city or postcode is missing.
MatcherSkipped ==
    /\ pc = "matcher"
    /\ ~matcher_runs(result)
    /\ pc' = "fallback"
    /\ UNCHANGED <<applied, codciu, lines_read, index, use_llm, reviewer_constructed,
                   model_loaded, result, error, calls>>

\* Stage 4: the matcher runs.
CityPostal ==
    /\ pc = "matcher"
    /\ matcher_runs(result)
    /\ \E city_variants \in extract_city_variants(result.parsed.city) :
         LET city_result ==
                 postal_validate(result.parsed.city, result.parsed.postcode, city_variants)
         IN  /\ calls' = Append(calls, Call("postal_validator.validate",
                                            <<result.parsed.city, result.parsed.postcode>>,
                                            city_result, None))
             /\ result' = after_matcher(result, city_result)
             /\ pc' = pc_after_matcher(city_result)
    /\ UNCHANGED <<applied, codciu, lines_read, index, use_llm, reviewer_constructed,
                   model_loaded, error>>

\* Stage 4, UNKNOWN_CITY with the LLM: validate_city returns.
Arbitration ==
    /\ pc = "arbitration"
    /\ reviewer_constructed' = TRUE
    /\ model_loaded' = TRUE
    /\ \E answer \in MODEL_ANSWERS :
         LET llm_result == validate_city(strip(answer))
         IN  /\ calls' = Append(calls, Call("validate_city", arbitration_args(result),
                                            llm_result, answer))
             /\ result' = after_arbitration(result, llm_result)
    /\ pc' = "returned"
    /\ UNCHANGED <<applied, codciu, lines_read, index, use_llm, error>>

\* Stage 4, UNKNOWN_CITY with the LLM: load or generate raises.
ArbitrationRaises ==
    /\ pc = "arbitration"
    /\ reviewer_constructed' = TRUE
    /\ model_loaded' \in {model_loaded, TRUE}
    /\ calls' = Append(calls, RaisedCall("validate_city", arbitration_args(result)))
    /\ error' = "validate_city"
    /\ pc' = "raised"
    /\ UNCHANGED <<applied, codciu, lines_read, index, use_llm, result>>

\* Stage 5: the final fallback.
Fallback ==
    /\ pc = "fallback"
    /\ result' = final_fallback(result)
    /\ pc' = "returned"
    /\ UNCHANGED <<applied, codciu, lines_read, index, use_llm, reviewer_constructed,
                   model_loaded, error, calls>>

\* The caller has the result (or the exception); the pipeline is ready for
\* the next call.
Return ==
    /\ pc \in {"returned", "raised"}
    /\ pc' = "idle"
    /\ result' = NoResult
    /\ error' = None
    /\ calls' = <<>>
    /\ UNCHANGED <<applied, codciu, lines_read, index, use_llm, reviewer_constructed,
                   model_loaded>>

Next ==
    \/ LoadLine
    \/ LoadRaises
    \/ Constructed
    \/ Validate
    \/ ValidateParserRaises
    \/ HardRules
    \/ NonsenseSkipped
    \/ NonsenseChecked
    \/ NonsenseRaises
    \/ MatcherSkipped
    \/ CityPostal
    \/ Arbitration
    \/ ArbitrationRaises
    \/ Fallback
    \/ Return

Spec == Init /\ [][Next]_vars

(***************************************************************************)
(* Properties of AddressPipeline.validate                                  *)
(***************************************************************************)
\* The positions of a validate call after stage 2 let it pass or return.
PastRules == {"nonsense", "matcher", "arbitration", "fallback", "returned"}

\* The positions after stage 3.
PastNonsense == {"matcher", "arbitration", "fallback", "returned"}

\* The entries of calls for collaborator fn.
CallsOf(fn) == {i \in 1..Len(calls) : calls[i].fn = fn}

\* The violations the hard-rule checker reports for the parsed address.
reported_violations == violation_types_of(get_violations(result.parsed))

\* The priority of the violations, highest first, with the message validate
\* reports for each.
VIOLATION_PRIORITY ==
    << [violation |-> RuleViolation.EMPTY_ADDRESS,
        message |-> "Address is empty"],
       [violation |-> RuleViolation.TOO_SHORT,
        message |-> "Address too short"],
       [violation |-> RuleViolation.ONLY_NUMBERS,
        message |-> "Address contains only numbers"],
       [violation |-> RuleViolation.INVALID_POSTCODE_FORMAT,
        message |-> "Invalid postal code format"],
       [violation |-> RuleViolation.INVALID_POSTCODE_PROVINCE,
        message |-> "Invalid postal code province (must be 01-52)"] >>

\* C1: whenever the hard-rule checker reports at least one violation, validate
\* returns at once with status INVALID_FORMAT and the message of the member of
\* the reported set that comes first in EMPTY_ADDRESS > TOO_SHORT >
\* ONLY_NUMBERS > INVALID_POSTCODE_FORMAT > INVALID_POSTCODE_PROVINCE; no
\* later stage runs.
C1_ViolationPriority ==
    (pc \in PastRules /\ reported_violations # {}) =>
        /\ pc = "returned"
        /\ result.status = AddressStatus.INVALID_FORMAT
        /\ \E i \in 1..Len(VIOLATION_PRIORITY) :
              /\ VIOLATION_PRIORITY[i].violation \in reported_violations
              /\ \A j \in 1..(i - 1) :
                    VIOLATION_PRIORITY[j].violation \notin reported_violations
              /\ result.message = VIOLATION_PRIORITY[i].message
        /\ Len(result.rule_violations) = Len(get_violations(result.parsed))
        /\ \A i \in 1..Len(calls) : calls[i].fn = "parse_address"

\* An empty address with a postcode of province 53 has been reported as empty.
C1_EmptyBeatsProvince ==
    /\ pc = "returned"
    /\ RuleViolation.EMPTY_ADDRESS \in reported_violations
    /\ RuleViolation.INVALID_POSTCODE_PROVINCE \in reported_violations
    /\ result.status = AddressStatus.INVALID_FORMAT
    /\ result.message = "Address is empty"

\* C2: a validate call that returns, returns one of the statuses other than
\* UNKNOWN, whatever the inputs, the parser output, the model's answers and
\* use_llm.
C2_NeverReturnsUnknown ==
    pc = "returned" =>
        result.status \in {AddressStatus.VALID, AddressStatus.VALID_NORMALIZED,
                           AddressStatus.INVALID_FORMAT, AddressStatus.INVALID_MISMATCH,
                           AddressStatus.NONSENSE, AddressStatus.NEEDS_REVIEW}

\* A call has returned whose status was still UNKNOWN at the last line of
\* stage 5: no rule, classifier or matcher decided it.
C2_DefaultReached ==
    /\ pc = "returned"
    /\ result.status = AddressStatus.NEEDS_REVIEW
    /\ result.message = "Could not validate without LLM"
    /\ result.rule_violations = <<>>

C4_MatcherValid ==
    \A i \in CallsOf("postal_validator.validate") :
        calls[i].ret.status = ValidationStatus.VALID =>
            /\ pc = "returned"
            /\ result.status = AddressStatus.VALID
            /\ result.normalized_city = result.parsed.city
            /\ result.normalized_postcode = result.parsed.postcode
            /\ calls[i].args = <<result.normalized_city, result.normalized_postcode>>
            /\ (Truthy(result.raw_city) /\ strip(result.raw_city) # "") =>
                  result.normalized_city = strip(result.raw_city)
            /\ (Truthy(result.raw_postcode) /\ strip(result.raw_postcode) # "") =>
                  result.normalized_postcode = strip(result.raw_postcode)

\* The caller's city, given with blanks around it, has matched the postcode.
C4_CallerCityMatched ==
    /\ pc = "returned"
    /\ result.status = AddressStatus.VALID
    /\ result.city_postal_status = ValidationStatus.VALID
    /\ result.raw_city = " Madrid "
    /\ result.normalized_city = "Madrid"
    /\ result.normalized_postcode = "28001"

\* C5: when the matcher is run and returns INVALID, validate returns
\* INVALID_MISMATCH at once: the matcher's call is the last one, validate_city
\* is not called and stage 5 is not reached, with use_llm or without.
C5_MatcherInvalid ==
    \A i \in CallsOf("postal_validator.validate") :
        calls[i].ret.status = ValidationStatus.INVALID =>
            /\ pc = "returned"
            /\ result.status = AddressStatus.INVALID_MISMATCH
            /\ result.message = calls[i].ret.message
            /\ i = Len(calls)
            /\ CallsOf("validate_city") = {}

\* With the LLM enabled, a city of another province was rejected.
C5_MismatchWithLLM ==
    /\ pc = "returned"
    /\ use_llm
    /\ result.status = AddressStatus.INVALID_MISMATCH
    /\ result.city_postal_status = ValidationStatus.INVALID
    /\ result.llm_intent = AddressIntent.VALID_ATTEMPT

\* C6: when the matcher returns UNKNOWN_CITY and use_llm is set, validate_city
\* is called with the parsed city, the parsed postcode and the cities the
\* index lists for the postcode's first two digits; if it answers valid,
\* validate returns VALID_NORMALIZED with normalized_city the suggested name,
\* or the parsed city when none is suggested; if it answers invalid, validate
\* returns NEEDS_REVIEW and normalized_city stays None.
C6_Arbitration ==
    /\ \A i \in CallsOf("postal_validator.validate") :
          (use_llm /\ calls[i].ret.status = ValidationStatus.UNKNOWN_CITY) =>
              \/ pc = "arbitration" /\ i = Len(calls)
              \/ i + 1 = Len(calls) /\ calls[i + 1].fn = "validate_city"
    /\ \A i \in CallsOf("validate_city") :
          /\ use_llm
          /\ calls[i - 1].fn = "postal_validator.validate"
          /\ calls[i - 1].ret.status = ValidationStatus.UNKNOWN_CITY
          /\ calls[i].args =
                << result.parsed.city, result.parsed.postcode,
                   DictGet(province_to_cities,
                           SubSeq(result.parsed.postcode, 1, 2), <<>>) >>
          /\ ~calls[i].raised =>
                /\ pc = "returned"
                /\ IF calls[i].ret.is_valid
                   THEN /\ result.status = AddressStatus.VALID_NORMALIZED
                        /\ result.normalized_city =
                              IF calls[i].ret.normalized_city \in {None, ""}
                              THEN result.parsed.city
                              ELSE calls[i].ret.normalized_city
                        /\ result.normalized_postcode = result.parsed.postcode
                   ELSE /\ result.status = AddressStatus.NEEDS_REVIEW
                        /\ result.normalized_city = None
                        /\ result.normalized_postcode = None

\* The reviewer was given the four cities of province 28, rejected the city
\* while suggesting a name, and the name was dropped.
C6_SuggestionOfRejectionDropped ==
    /\ pc = "returned"
    /\ result.status = AddressStatus.NEEDS_REVIEW
    /\ result.normalized_city = None
    /\ \E i \in CallsOf("validate_city") :
          /\ ~calls[i].raised
          /\ ~calls[i].ret.is_valid
          /\ calls[i].ret.normalized_city = "Madrid"
          /\ Len(calls[i].args[3]) = 4

\* C7: with use_llm false, over any sequence of validate calls, the reviewer
\* is never constructed, its model never loaded, check_nonsense and
\* validate_city never called and no intent recorded; an UNKNOWN_CITY of the
\* matcher returns NEEDS_REVIEW; and no call fails for want of the reviewer:
\* a call whose parser returned, returns a status other than UNKNOWN.
C7_DisabledMode ==
    ~use_llm =>
        /\ ~reviewer_constructed
        /\ ~model_loaded
        /\ CallsOf("check_nonsense") = {}
        /\ CallsOf("validate_city") = {}
        /\ result.llm_intent = None
        /\ result.llm_confidence = None
        /\ pc # "arbitration"
        /\ pc = "raised" => error = "parse_address"
        /\ pc = "returned" => result.status # AddressStatus.UNKNOWN
        /\ \A i \in CallsOf("postal_validator.validate") :
              calls[i].ret.status = ValidationStatus.UNKNOWN_CITY =>
                  /\ pc = "returned"
                  /\ result.status = AddressStatus.NEEDS_REVIEW

\* Without the LLM, a city the index does not know was put up for review.
C7_UnknownCityWithoutLLM ==
    /\ ~use_llm
    /\ pc = "returned"
    /\ result.city_postal_status = ValidationStatus.UNKNOWN_CITY
    /\ result.status = AddressStatus.NEEDS_REVIEW
    /\ result.message = "City not found in database"

\* C8: when validate runs the matcher (has_city and has_postcode, no
\* hard-rule violation), the matcher does not return MISSING_DATA; and a call
\* in which it did returns NEEDS_REVIEW, with use_llm or without.
C8_NoMissingData ==
    \A i \in CallsOf("postal_validator.validate") :
        /\ calls[i].ret.status # ValidationStatus.MISSING_DATA
        /\ (calls[i].ret.status = ValidationStatus.MISSING_DATA /\ pc = "returned") =>
              result.status = AddressStatus.NEEDS_REVIEW

\* The matcher was run, answered MISSING_DATA, and validate returned VALID.
C8_MissingDataReturnedValid ==
    /\ pc = "returned"
    /\ reported_violations = {}
    /\ result.city_postal_status = ValidationStatus.MISSING_DATA
    /\ result.status = AddressStatus.VALID

CLASSIFICATION_LABELS == {"VALID_ATTEMPT", "GIBBERISH", "REFUSAL", "TEST_DATA"}

\* The model's answer does not have the line the prompt of fn asks for first:
\* CLASSIFICATION: with one of the labels, or VALID: with yes or no.
Malformed(fn, answer) ==
    LET lines == split(upper(strip(answer)), "\n")
    IN  IF fn = "check_nonsense"
        THEN ~\E i \in 1..Len(lines) :
                 /\ Contains(lines[i], "CLASSIFICATION:")
                 /\ \E label \in CLASSIFICATION_LABELS : Contains(lines[i], label)
        ELSE ~\E i \in 1..Len(lines) :
                 /\ startswith(lines[i], "VALID:")
                 /\ \/ Contains(lines[i], "YES")
                    \/ Contains(lines[i], "NO")

\* C10: a collaborator that raises or whose output is malformed makes
\* validate fail with that collaborator's error: validate neither returns a
\* status nor goes on to a later stage.
C10_FailurePropagates ==
    \A i \in 1..Len(calls) :
        (\/ calls[i].raised
         \/ /\ calls[i].fn \in {"check_nonsense", "validate_city"}
            /\ ~calls[i].raised
            /\ Malformed(calls[i].fn, calls[i].answer)) =>
            /\ pc = "raised"
            /\ error = calls[i].fn

\* validate_city got an empty answer from the model and validate returned
\* NEEDS_REVIEW.
C10_EmptyAnswerNeedsReview ==
    /\ pc = "returned"
    /\ result.status = AddressStatus.NEEDS_REVIEW
    /\ \E i \in CallsOf("validate_city") :
          /\ ~calls[i].raised
          /\ calls[i].answer = ""

(***************************************************************************)
(* The components called on their own, as src/tests calls them: on a       *)
(* PostalCodeValidator built from the reference table, and on the          *)
(* functions of text.py, rules.py and address.py.                          *)
(***************************************************************************)
\* The city and postal_code arguments of PostalCodeValidator.validate.
MATCHER_CITIES ==
    { None, "", "  ", "Madrid", "MADRID", " Madrid ", "Málaga", "Malaga",
      "Barcelona", "Alarcón", "Pozuelo", "pozuelo  de ALARCON", "Alacant",
      "Alicante", "Donostia", "San Sebastian", "Vitoria-Gasteiz", "Vitoria",
      "Rivas-Vaciamadrid", "Rivas", "Vaciamadrid", "Winterfell",
      "vitoria alcala", "Lérida", "´" }

MATCHER_POSTCODES ==
    { None, "", "  ", "2800", "280011", "28a01", "2800²", " 28001 ", "28001",
      "08001", "99001", "00123", "01001", "03001", "20001", "29000", "16001" }

\* The validator alone: PostalCodeValidator.__init__ on a table that loads.
\* A table with lines whose code does not start with a province number.
FOREIGN_LINES == << "99xGotham", "ABxAtlantis", "28xMadrid" >>

DIRECT_TABLES == {REFERENCE_LINES, FOREIGN_LINES}

DirectInit ==
    /\ codciu \in DIRECT_TABLES
    /\ lines_read = 0
    /\ province_to_cities = EmptyDict
    /\ city_to_province = EmptyDict
    /\ variant_to_cities = EmptyDict
    /\ use_llm = FALSE
    /\ reviewer_constructed = FALSE
    /\ model_loaded = FALSE
    /\ pc = "loading"
    /\ result = NoResult
    /\ error = None
    /\ calls = <<>>
    /\ applied = NoApplication

\* A call of PostalCodeValidator.validate.
\* A faulty variant of MatcherValidate: a city found VALID is remembered in
\* city_to_province.
MatcherValidate_remembers ==
    /\ pc = "idle"
    /\ \E city \in MATCHER_CITIES, postal_code \in MATCHER_POSTCODES :
         \E city_variants \in
                 (IF calls_extract_city_variants(city, postal_code)
                  THEN extract_city_variants(city) ELSE {NoList}) :
            LET ret == postal_validate(city, postal_code, city_variants)
            IN  /\ applied' = Application("postal_validator.validate",
                                          <<city, postal_code>>, city_variants, ret)
                /\ city_to_province' =
                      IF ret.status = ValidationStatus.VALID
                      THEN DictSet(city_to_province, normalize_city(city),
                                   ret.province_code)
                      ELSE city_to_province
    /\ pc' = "called"
    /\ UNCHANGED <<codciu, lines_read, province_to_cities, variant_to_cities, use_llm,
                   reviewer_constructed, model_loaded, result, error, calls>>

MatcherValidate ==
    /\ pc = "idle"
    /\ \E city \in MATCHER_CITIES, postal_code \in MATCHER_POSTCODES :
         \E city_variants \in
                 (IF calls_extract_city_variants(city, postal_code)
                  THEN extract_city_variants(city) ELSE {NoList}) :
            applied' = Application("postal_validator.validate", <<city, postal_code>>,
                                   city_variants,
                                   postal_validate(city, postal_code, city_variants))
    /\ pc' = "called"
    /\ UNCHANGED <<codciu, lines_read, index, use_llm, reviewer_constructed,
                   model_loaded, result, error, calls>>

\* The caller has the value; the next call can be made.
DirectReturn ==
    /\ pc = "called"
    /\ pc' = "idle"
    /\ applied' = NoApplication
    /\ UNCHANGED <<codciu, lines_read, index, use_llm, reviewer_constructed,
                   model_loaded, result, error, calls>>

\* The strings normalize_city is applied to.
NORMALIZE_INPUTS ==
    { "", "  ", "Madrid", "MÁLAGA", "  Pozuelo   de\tAlarcón ", "L'Hospitalet",
      "Vitoria-Gasteiz", "Donostia - San Sebastian", "d'-A", "-", "'", "´",
      "a ´ b", "Ñ'ü-É", " - " }

NormalizeCity ==
    /\ pc = "idle"
    /\ \E city \in NORMALIZE_INPUTS :
         applied' = Application("normalize_city", <<city>>, NoList, normalize_city(city))
    /\ pc' = "called"
    /\ UNCHANGED <<codciu, lines_read, index, use_llm, reviewer_constructed,
                   model_loaded, result, error, calls>>

\* The postcodes the province rule is applied to, and the parsed addresses
\* get_violations is applied to.
RULE_POSTCODES ==
    { None, "", "5", "00", "28", "00123", "01000", "28001", "52999", "53000",
      "99001", " 28001", "²8001", "2a001", "ab", "  ", "2800", "280011",
      " 28001 ", "2800²" }

RULE_ADDRESSES == { "", "Calle Sol 12" }

RULE_CITIES == { None, "Madrid", "Gotham" }

CheckPostcodeProvince ==
    /\ pc = "idle"
    /\ \E postcode \in RULE_POSTCODES :
         applied' = Application("check_postcode_province", <<postcode>>, NoList,
                                check_postcode_province(postcode))
    /\ pc' = "called"
    /\ UNCHANGED <<codciu, lines_read, index, use_llm, reviewer_constructed,
                   model_loaded, result, error, calls>>

CheckPostcodeFormat ==
    /\ pc = "idle"
    /\ \E postcode \in RULE_POSTCODES :
         applied' = Application("check_postcode_format", <<postcode>>, NoList,
                                check_postcode_format(postcode))
    /\ pc' = "called"
    /\ UNCHANGED <<codciu, lines_read, index, use_llm, reviewer_constructed,
                   model_loaded, result, error, calls>>

GetViolations ==
    /\ pc = "idle"
    /\ \E raw \in RULE_ADDRESSES, city \in RULE_CITIES, postcode \in RULE_POSTCODES :
         LET parsed == [ParsedAddress(raw) EXCEPT !.city = city, !.postcode = postcode]
         IN  applied' = Application("get_violations", <<parsed>>, NoList,
                                    get_violations(parsed))
    /\ pc' = "called"
    /\ UNCHANGED <<codciu, lines_read, index, use_llm, reviewer_constructed,
                   model_loaded, result, error, calls>>

\* The city fields _split_city_names is applied to: what is left of a line
\* after its code, trimmed and not empty.
SPLIT_INPUTS ==
    { "Madrid", "Pozuelo de Alarcón", "Hospitalet de Llobregat,l'",
      "Palmas de Gran Canaria,Las", "Donostia - San Sebastian", "Alacant-Alicante",
      "Vitoria-Gasteiz", "Rivas-Vaciamadrid", "Sant Joan-San Juan", "Elx-elche",
      "A-B-C", "Foo - Bar,l'", "Palmas,Las - X", "Alfa - Beta-Gamma",
      "Castellón de la Plana-Castelló", "Elx-Elche nou", "València-", "-Foo",
      ",l'", ",Las", "A -  - B" }

SplitCityNames ==
    /\ pc = "idle"
    /\ \E city \in SPLIT_INPUTS :
         /\ ~split_city_names_raises(city)
         /\ applied' = Application("_split_city_names", <<city>>, NoList,
                                   split_city_names(city))
    /\ pc' = "called"
    /\ UNCHANGED <<codciu, lines_read, index, use_llm, reviewer_constructed,
                   model_loaded, result, error, calls>>

\* _split_city_names raises: there is no return value.
SplitCityNamesRaises ==
    /\ pc = "idle"
    /\ \E city \in SPLIT_INPUTS :
         /\ split_city_names_raises(city)
         /\ applied' = Application("_split_city_names", <<city>>, NoList, None)
    /\ pc' = "raised"
    /\ error' = "IndexError"
    /\ UNCHANGED <<codciu, lines_read, index, use_llm, reviewer_constructed,
                   model_loaded, result, calls>>

\* The caller handles the exception; the next call can be made.
DirectCaught ==
    /\ pc = "raised"
    /\ pc' = "idle"
    /\ error' = None
    /\ applied' = NoApplication
    /\ UNCHANGED <<codciu, lines_read, index, use_llm, reviewer_constructed,
                   model_loaded, result, calls>>

\* The arguments parse_or_use_existing is called with.
OVERRIDE_ADDRESSES == { "", "Calle Sol 12" }

OVERRIDE_CITIES == CITIES \cup {None}

ParseOrUseExisting ==
    /\ pc = "idle"
    /\ \E raw_address \in OVERRIDE_ADDRESSES, city \in OVERRIDE_CITIES,
          postcode \in POSTCODES :
         \E components \in
                 (IF parse_calls_libpostal(raw_address) THEN LIBPOSTAL_OUTPUTS
                  ELSE {<<>>}) :
            applied' = Application("parse_or_use_existing",
                                   <<raw_address, city, postcode, components>>, NoList,
                                   parse_or_use_existing(raw_address, city, postcode,
                                                         components))
    /\ pc' = "called"
    /\ UNCHANGED <<codciu, lines_read, index, use_llm, reviewer_constructed,
                   model_loaded, result, error, calls>>

\* The values of a field of a ParsedAddress.
FIELD_VALUES == { None, "", "  ", "Madrid", " 28001 " }

\* The three derived booleans of a ParsedAddress are read.
HasFields ==
    /\ pc = "idle"
    /\ \E postcode \in FIELD_VALUES, city \in FIELD_VALUES, road \in FIELD_VALUES :
         LET parsed == [ParsedAddress("Calle Sol 12") EXCEPT
                           !.postcode = postcode, !.city = city, !.road = road]
         IN  applied' = Application("ParsedAddress.has", <<parsed>>, NoList,
                                    [has_postcode |-> has_postcode(parsed),
                                     has_city |-> has_city(parsed),
                                     has_road |-> has_road(parsed)])
    /\ pc' = "called"
    /\ UNCHANGED <<codciu, lines_read, index, use_llm, reviewer_constructed,
                   model_loaded, result, error, calls>>

\* The province codes get_cities_for_province is called with.
GETTER_PROVINCES == { "", "03", "28", "99" }

GetCitiesForProvince ==
    /\ pc = "idle"
    /\ \E province \in GETTER_PROVINCES :
         applied' = Application("get_cities_for_province", <<province>>, NoList,
                                get_cities_for_province(province))
    /\ pc' = "called"
    /\ UNCHANGED <<codciu, lines_read, index, use_llm, reviewer_constructed,
                   model_loaded, result, error, calls>>

GetProvinceForCity ==
    /\ pc = "idle"
    /\ \E city \in MATCHER_CITIES \ {None} :
         applied' = Application("get_province_for_city", <<city>>, NoList,
                                get_province_for_city(city))
    /\ pc' = "called"
    /\ UNCHANGED <<codciu, lines_read, index, use_llm, reviewer_constructed,
                   model_loaded, result, error, calls>>

DirectNext ==
    \/ LoadLine
    \/ Constructed
    \/ MatcherValidate
    \/ NormalizeCity
    \/ CheckPostcodeProvince
    \/ CheckPostcodeFormat
    \/ GetViolations
    \/ ParseOrUseExisting
    \/ SplitCityNames
    \/ SplitCityNamesRaises
    \/ DirectCaught
    \/ GetCitiesForProvince
    \/ GetProvinceForCity
    \/ HasFields
    \/ DirectReturn

DirectSpec == DirectInit /\ [][DirectNext]_vars

\* A process that makes calls of AddressPipeline.validate and of the
\* validator's own methods, in any order.
CallsNext ==
    \/ Next
    \/ MatcherValidate
    \/ GetCitiesForProvince
    \/ GetProvinceForCity
    \/ DirectReturn

CallsSpec == Init /\ [][CallsNext]_vars

(***************************************************************************)
(* Properties of PostalCodeValidator.validate                              *)
(***************************************************************************)
\* applied holds a call of PostalCodeValidator.validate.
MatcherApplied == applied.fn = "postal_validator.validate"

\* A str argument that is None, empty or whitespace only.
Blank(s) == s = None \/ strip(s) = ""

\* Exactly five of the digits 0 to 9.
FiveDigits(s) == Len(s) = 5 /\ \A i \in 1..Len(s) : Char(s, i) \in CharsOf(DIGITS)

\* The call in applied got past the three checks of lines 149-169.
PassesChecks ==
    /\ MatcherApplied
    /\ ~Blank(applied.args[1])
    /\ ~Blank(applied.args[2])
    /\ isdigit(strip(applied.args[2]))
    /\ Len(strip(applied.args[2])) = 5

\* The first two characters of the trimmed postal code of the call in applied.
applied_province == SubSeq(strip(applied.args[2]), 1, 2)

\* The normalized city of the call in applied.
applied_city_key == normalize_city(applied.args[1])

\* C11: PostalCodeValidator.validate returns MISSING_DATA exactly when the
\* city is blank, or the postal code is blank, or the trimmed postal code is
\* not five digits 0-9, with the message of the first of the three that
\* applies; no such input gets VALID, INVALID or UNKNOWN_CITY.
C11_MissingDataExactly ==
    MatcherApplied =>
        /\ applied.ret.status = ValidationStatus.MISSING_DATA <=>
              \/ Blank(applied.args[1])
              \/ Blank(applied.args[2])
              \/ ~FiveDigits(strip(applied.args[2]))
        /\ Blank(applied.args[1]) => applied.ret.message = "City is empty"
        /\ (~Blank(applied.args[1]) /\ Blank(applied.args[2])) =>
              applied.ret.message = "Postal code is empty"

\* A postal code of four digits and a superscript two was taken as province
\* 28 and matched Madrid.
C11_SuperscriptDigitValid ==
    /\ MatcherApplied
    /\ applied.args = <<"Madrid", "2800²">>
    /\ applied.ret.status = ValidationStatus.VALID
    /\ applied.ret.province_code = "28"

\* C12: for a non-blank city and a five-digit postal code whose first two
\* digits are not a key of province_to_cities, validate returns INVALID, not
\* MISSING_DATA and not UNKNOWN_CITY, with province_code those two digits,
\* whatever the city.
C12_UnknownProvinceInvalid ==
    (PassesChecks /\ applied_province \notin DOMAIN province_to_cities) =>
        /\ applied.ret.status = ValidationStatus.INVALID
        /\ applied.ret.province_code = applied_province
        /\ applied.ret.message = "Unknown province code: " \o applied_province

\* A city the index does not know, with a postal code of province 99, came
\* back INVALID.
C12_Province99 ==
    /\ MatcherApplied
    /\ applied.args = <<"Winterfell", "99001">>
    /\ applied.ret.status = ValidationStatus.INVALID
    /\ applied.ret.province_code = "99"

\* C13: when the checks pass, the province is known and the normalized city
\* is a key of city_to_province, that entry alone decides: VALID if it is the
\* postal code's province, else INVALID with province_code the postal code's
\* province and expected_cities the cities of the postal code's province;
\* extract_city_variants is not called, even if a variant of the city would
\* match the postal code's province.
C13_ExactPath ==
    (/\ PassesChecks
     /\ applied_province \in DOMAIN province_to_cities
     /\ applied_city_key \in DOMAIN city_to_province) =>
        /\ applied.city_variants = NoList
        /\ applied.ret.province_code = applied_province
        /\ IF city_to_province[applied_city_key] = applied_province
           THEN applied.ret.status = ValidationStatus.VALID
           ELSE /\ applied.ret.status = ValidationStatus.INVALID
                /\ applied.ret.expected_cities = province_to_cities[applied_province]

\* A city of another province was rejected on the exact path although one of
\* its variants lists a city of the postal code's province.
C13_ExactBeatsVariant ==
    /\ PassesChecks
    /\ applied_city_key \in DOMAIN city_to_province
    /\ applied.ret.status = ValidationStatus.INVALID
    /\ applied.ret.expected_cities = province_to_cities[applied_province]
    /\ \E v \in city_variant_set(applied.args[1]) :
          /\ v \in DOMAIN variant_to_cities
          /\ first_city_in_province(variant_to_cities[v], applied_province) # None

\* The variants of the list extract_city_variants returned that are keys of
\* variant_to_cities, by their place in the list.
applied_hits ==
    {i \in 1..Len(applied.city_variants) :
        applied.city_variants[i] \in DOMAIN variant_to_cities}

\* Some city listed under variant v has its normalized name registered for
\* the province.
VariantReaches(v, province) ==
    \E k \in 1..Len(variant_to_cities[v]) :
        /\ normalize_city(variant_to_cities[v][k]) \in DOMAIN city_to_province
        /\ city_to_province[normalize_city(variant_to_cities[v][k])] = province

\* C14: when the exact lookup misses, the variants are tried in the order
\* extract_city_variants produced, and the first that is a key of
\* variant_to_cities decides: VALID if a city listed under it is registered
\* for the postal code's province, else INVALID at once with the cities of
\* the postal code's province; the later variants are not looked at.
C14_VariantPath ==
    (/\ PassesChecks
     /\ applied_province \in DOMAIN province_to_cities
     /\ applied_city_key \notin DOMAIN city_to_province) =>
        /\ SeqToSet(applied.city_variants) = city_variant_set(applied.args[1])
        /\ Len(applied.city_variants) = Cardinality(city_variant_set(applied.args[1]))
        /\ applied_hits # {} =>
              LET first == applied.city_variants[MinOf(applied_hits)]
              IN  IF VariantReaches(first, applied_province)
                  THEN applied.ret.status = ValidationStatus.VALID
                  ELSE /\ applied.ret.status = ValidationStatus.INVALID
                       /\ applied.ret.expected_cities =
                             province_to_cities[applied_province]

\* The first matching variant listed only a city of another province and the
\* call came back INVALID, although a later variant lists a city of the
\* postal code's province.
C14_FirstHitDecides ==
    /\ PassesChecks
    /\ applied_hits # {}
    /\ applied.ret.status = ValidationStatus.INVALID
    /\ \E j \in applied_hits :
          /\ j > MinOf(applied_hits)
          /\ VariantReaches(applied.city_variants[j], applied_province)

Respellings(city) ==
    {upper(city), lower(city), remove_accents(city), " " \o city \o "  "}

\* The cities to compare the city of the call in applied with: its
\* respellings, and the cities of the input set with the same normalized key.
SameKeyCities ==
    Respellings(applied.args[1]) \cup
        {other \in MATCHER_CITIES \ {None} : normalize_city(other) = applied_city_key}

\* The status validate returns for another city with the postal code of the
\* call in applied. Two cities with one normalized key build the same set of
\* variants in the same way, so within a process list(set(...)) gives them
\* the order it gave the call in applied.
status_of(other) ==
    LET postal_code == applied.args[2]
        orders == IF ~calls_extract_city_variants(other, postal_code) THEN {NoList}
                  ELSE IF applied.city_variants # NoList THEN {applied.city_variants}
                  ELSE extract_city_variants(other)
    IN  {postal_validate(other, postal_code, city_variants).status :
            city_variants \in orders}

\* C16 as stated: for any postal code, two city strings that differ only in
\* letter case, diacritics or whitespace (the same normalized key) get the
\* same status from validate.
C16_SameKeySameStatus ==
    (MatcherApplied /\ applied.args[1] # None) =>
        \A other \in SameKeyCities : status_of(other) = {applied.ret.status}

\* C16, amended: two city strings that differ only in letter case, diacritics
\* or whitespace get the same status from validate when both are blank or
\* neither is; a city that is VALID stays VALID in upper case, in lower case
\* and without its accents.
C16_SameKeySameStatusUnlessBlank ==
    (MatcherApplied /\ applied.args[1] # None) =>
        /\ \A other \in SameKeyCities :
              (Blank(other) <=> Blank(applied.args[1])) =>
                  status_of(other) = {applied.ret.status}
        /\ applied.ret.status = ValidationStatus.VALID =>
              \A other \in {upper(applied.args[1]), lower(applied.args[1]),
                            remove_accents(applied.args[1])} :
                  status_of(other) = {ValidationStatus.VALID}

\* Malaga without its accent is VALID for 29000, and so are the accented
\* name and the name in capitals.
C16_MalagaWithoutAccent ==
    /\ MatcherApplied
    /\ applied.args = <<"Malaga", "29000">>
    /\ applied.ret.status = ValidationStatus.VALID
    /\ "Málaga" \in SameKeyCities
    /\ "MALAGA" \in SameKeyCities
    /\ status_of("Málaga") = {ValidationStatus.VALID}

(***************************************************************************)
(* Properties of the index against the lines it was loaded from            *)
(***************************************************************************)
\* Line i of codciu.txt: whether it is loaded, its province, its city field
\* and the names _split_city_names makes of it.
entry_loaded(i) == line_is_loaded(codciu[i])
entry_province(i) == Prefix(strip(codciu[i]), 2)
entry_city(i) == strip(SubSeq(strip(codciu[i]), 4, Len(strip(codciu[i]))))
entry_names(i) == split_city_names(entry_city(i))

\* The loaded lines whose city field holds a hyphen: the " - " pairs, the
\* hyphen pairs and the hyphenated compounds.
HyphenEntries ==
    {i \in 1..Len(codciu) : entry_loaded(i) /\ Contains(entry_city(i), "-")}

\* The meaningful words of a display name, as written in it.
ConstituentWords(name) ==
    {w \in SeqToSet(split_ws(replace(name, "-", " "))) :
        lower(w) \notin STOPWORDS /\ Len(w) > 2}

\* The cities the claim speaks of for line i: the two names of a split
\* entry, or the compound and its meaningful words.
BilingualNames(i) ==
    IF Len(entry_names(i)) = 2 THEN SeqToSet(entry_names(i))
    ELSE {entry_city(i)} \cup ConstituentWords(entry_city(i))

\* Some line of another province registers a name with the normalized key of
\* the city.
Homonym(city, i) ==
    \E j \in 1..Len(codciu) :
        /\ entry_loaded(j)
        /\ entry_province(j) # entry_province(i)
        /\ \E k \in 1..Len(entry_names(j)) :
              normalize_city(entry_names(j)[k]) = normalize_city(city)

Count(s, c) == Cardinality({i \in 1..Len(s) : Char(s, i) = c})

\* C18: normalize_city is idempotent, normalize_city(normalize_city(x)) =
\* normalize_city(x); it returns the empty string for the empty string; every
\* apostrophe and every hyphen of x is in the result.
C18_NormalizeCityIdempotent ==
    applied.fn = "normalize_city" =>
        /\ normalize_city(applied.ret) = applied.ret
        /\ applied.args[1] = "" => applied.ret = ""
        /\ Count(applied.ret, "'") = Count(applied.args[1], "'")
        /\ Count(applied.ret, "-") = Count(applied.args[1], "-")

\* A name with an apostrophe, a hyphen, capitals and accents came out in lower
\* case, without accents, with both signs.
C18_SignsKept ==
    /\ applied.fn = "normalize_city"
    /\ applied.args = <<"Ñ'ü-É">>
    /\ applied.ret = "n'u-e"

\* The value of a digit 0 to 9.
DigitValue(c) == IndexOf(c, DIGITS) - 1

\* The first two characters of a postcode are two digits 0-9 that read as a
\* number from 1 to 52.
PrefixInRange(postcode) ==
    /\ Char(postcode, 1) \in CharsOf(DIGITS)
    /\ Char(postcode, 2) \in CharsOf(DIGITS)
    /\ (10 * DigitValue(Char(postcode, 1))) + DigitValue(Char(postcode, 2)) \in 1..52

\* The postcode is long enough for the province rule to look at it.
HasPrefix(postcode) == postcode # None /\ Len(postcode) >= 2

\* C19: for a postcode of two characters or more, check_postcode_province
\* accepts it exactly when its first two characters are one of 01 to 52 and
\* reports INVALID_POSTCODE_PROVINCE otherwise; an absent or shorter postcode
\* passes; get_violations, the hard-rule stage, reports the violation in
\* exactly the same cases, whatever the city.
C19_ProvinceRange ==
    /\ applied.fn = "check_postcode_province" =>
          IF HasPrefix(applied.args[1])
          THEN /\ applied.ret.is_valid <=> PrefixInRange(applied.args[1])
               /\ ~applied.ret.is_valid =>
                     applied.ret.violation = RuleViolation.INVALID_POSTCODE_PROVINCE
          ELSE applied.ret.is_valid /\ applied.ret.violation = RuleViolation.NONE
    /\ applied.fn = "get_violations" =>
          ((\E k \in 1..Len(applied.ret) :
               applied.ret[k].violation = RuleViolation.INVALID_POSTCODE_PROVINCE)
           <=> (/\ HasPrefix(applied.args[1].postcode)
                /\ ~PrefixInRange(applied.args[1].postcode)))

\* A well-formed address of Madrid with postcode 00123 violates the province
\* rule and no other.
C19_Province00 ==
    /\ applied.fn = "get_violations"
    /\ applied.args[1].city = "Madrid"
    /\ applied.args[1].postcode = "00123"
    /\ Len(applied.ret) = 1
    /\ applied.ret[1].violation = RuleViolation.INVALID_POSTCODE_PROVINCE

\* The fields of a ParsedAddress other than city and postcode.
OTHER_FIELDS == {"raw", "road", "house_number", "unit", "state_district", "country"}

\* C20: parse_or_use_existing returns what parse returns, but with the city
\* replaced by the caller's trimmed city when that is not blank, and the
\* postcode by the caller's trimmed postcode when that is not blank, each
\* independently of the other; no other field differs.
C20_CallerValuesFirst ==
    applied.fn = "parse_or_use_existing" =>
        LET parsed == parse(applied.args[1], applied.args[4])
            city == applied.args[2]
            postcode == applied.args[3]
        IN  /\ applied.ret.city = IF Blank(city) THEN parsed.city ELSE strip(city)
            /\ applied.ret.postcode =
                  IF Blank(postcode) THEN parsed.postcode ELSE strip(postcode)
            /\ \A f \in OTHER_FIELDS : applied.ret[f] = parsed[f]

\* The caller's padded city replaced the parsed one, and the caller's blank
\* postcode left the parsed postcode in place.
C20_CityOnly ==
    /\ applied.fn = "parse_or_use_existing"
    /\ applied.args[2] = " Madrid "
    /\ applied.args[3] = ""
    /\ parse(applied.args[1], applied.args[4]).city = "pozuelo"
    /\ applied.ret.city = "Madrid"
    /\ applied.ret.postcode = "28223"
    /\ applied.ret.road = "calle sol"

\* The violations of the two postcode rules.
POSTCODE_VIOLATIONS ==
    {RuleViolation.INVALID_POSTCODE_FORMAT, RuleViolation.INVALID_POSTCODE_PROVINCE}

\* C21: check_postcode_format passes an absent postcode (None or the empty
\* string); a present postcode passes exactly when, trimmed, it is five
\* digits 0-9, and gets INVALID_POSTCODE_FORMAT otherwise; an address without
\* a postcode gets no postcode violation from get_violations.
C21_PostcodeFormat ==
    /\ applied.fn = "check_postcode_format" =>
          IF ~Truthy(applied.args[1])
          THEN applied.ret.is_valid /\ applied.ret.violation = RuleViolation.NONE
          ELSE /\ applied.ret.is_valid <=> FiveDigits(strip(applied.args[1]))
               /\ ~applied.ret.is_valid =>
                     applied.ret.violation = RuleViolation.INVALID_POSTCODE_FORMAT
    /\ (applied.fn = "get_violations" /\ ~Truthy(applied.args[1].postcode)) =>
          \A k \in 1..Len(applied.ret) :
              applied.ret[k].violation \notin POSTCODE_VIOLATIONS

\* Four digits and a superscript two passed the format rule.
C21_SuperscriptDigitPasses ==
    /\ applied.fn = "check_postcode_format"
    /\ applied.args = <<"2800²">>
    /\ applied.ret.is_valid

(***************************************************************************)
(* Properties of _split_city_names and of the loaded index                 *)
(***************************************************************************)
\* applied holds a call of _split_city_names that returned.
SplitReturned == applied.fn = "_split_city_names" /\ pc = "called"

\* The fourth rule of the name-splitting policy, as the policy words it: two
\* parts around the hyphen, both starting with a capital, lengths less than 5
\* apart, the first shorter than 12.
ShortHyphenPair(city) ==
    LET parts == split(city, "-")
    IN  /\ Len(parts) = 2
        /\ parts[1] # "" /\ c_isupper(Char(parts[1], 1))
        /\ parts[2] # "" /\ c_isupper(Char(parts[2], 1))
        /\ AbsDiff(Len(parts[1]), Len(parts[2])) < 5
        /\ Len(parts[1]) < 12

\* The names the policy gives, rule by rule.
PolicyNames(city) ==
    IF endswith(city, ",l'")
    THEN <<SubSeq(city, 1, Len(city) - 3), "l'" \o SubSeq(city, 1, Len(city) - 3)>>
    ELSE IF Contains(city, ",Las")
    THEN <<strip(split(city, ",Las")[1]), "Las " \o strip(split(city, ",Las")[1])>>
    ELSE IF Contains(city, " - ")
    THEN [i \in 1..Len(split(city, " - ")) |-> strip(split(city, " - ")[i])]
    ELSE IF Contains(city, "-") /\ ShortHyphenPair(city)
    THEN <<strip(split(city, "-")[1]), strip(split(city, "-")[2])>>
    ELSE <<city>>

\* C22: _split_city_names returns the names of the first rule that matches,
\* in the order ",l'" at the end, ",Las", " - ", short hyphen pair, one name;
\* every hyphenated string that meets the conditions of the fourth rule is
\* split in two.
C22_SplitPolicy ==
    SplitReturned => applied.ret = PolicyNames(applied.args[1])

\* A hyphen pair of two capitalized names of 9 and 8 letters came back as one
\* name: its first part holds a space.
C22_SantJoanKeptWhole ==
    /\ SplitReturned
    /\ applied.args = <<"Sant Joan-San Juan">>
    /\ ShortHyphenPair("Sant Joan-San Juan")
    /\ applied.ret = <<"Sant Joan-San Juan">>

\* C30: _split_city_names returns for every non-empty trimmed city string,
\* also one that begins or ends with a hyphen or holds an empty part: it
\* does not raise, and gives a list of at least one name, none of them empty.
C30_SplitTotal ==
    applied.fn = "_split_city_names" =>
        /\ pc = "called"
        /\ error = None
        /\ Len(applied.ret) >= 1
        /\ \A k \in 1..Len(applied.ret) : applied.ret[k] # ""

\* The call on a name that ends with a hyphen raised IndexError.
C30_TrailingHyphenRaises ==
    /\ applied.fn = "_split_city_names"
    /\ applied.args = <<"València-">>
    /\ pc = "raised"
    /\ error = "IndexError"

\* The names line i registers: none when the line is shorter than four
\* characters or has no city field.
line_names(i) ==
    IF Len(strip(codciu[i])) >= 4 /\ entry_city(i) # "" THEN entry_names(i) ELSE <<>>

\* r was registered before s; <<i, k>> is the k-th name of line i.
Before(r, s) == r[1] < s[1] \/ (r[1] = s[1] /\ r[2] < s[2])

\* C23: after any number of lines read, province_to_cities[P] is the names
\* registered for P, in the order of registration, repeated when registered
\* twice; city_to_province[key] is the province of the last name registered
\* with that normalized key; variant_to_cities[v] holds each name that has the
\* variant v exactly once; lines shorter than 4 characters or without a city
\* field add nothing.
C23_IndexContents ==
    pc = "loading" =>
        LET names == [i \in 1..lines_read |-> line_names(i)]
            regs == UNION {{<<i, k>> : k \in 1..Len(names[i])} : i \in 1..lines_read}
            name == [r \in regs |-> names[r[1]][r[2]]]
            province == [r \in regs |-> entry_province(r[1])]
            key == [r \in regs |-> normalize_city(name[r])]
            variants == [r \in regs |-> city_variant_set(name[r])]
        IN  /\ DOMAIN province_to_cities = {province[r] : r \in regs}
            /\ \A p \in DOMAIN province_to_cities :
                  Len(province_to_cities[p])
                      = Cardinality({r \in regs : province[r] = p})
            /\ \A r \in regs :
                  province_to_cities[province[r]]
                      [1 + Cardinality({s \in regs : province[s] = province[r]
                                                     /\ Before(s, r)})]
                      = name[r]
            /\ DOMAIN city_to_province = {key[r] : r \in regs}
            /\ \A r \in regs :
                  (\A s \in regs : key[s] = key[r] => (s = r \/ Before(s, r)))
                      => city_to_province[key[r]] = province[r]
            /\ DOMAIN variant_to_cities = UNION {variants[r] : r \in regs}
            /\ \A r \in regs :
                  \A v \in variants[r] :
                      Cardinality({j \in 1..Len(variant_to_cities[v]) :
                                      variant_to_cities[v][j] = name[r]}) = 1

\* The whole table is loaded: Barcelona is listed twice under 08 and once
\* under its variant, Alicante belongs to the province of its last line, and
\* the three lines without a city field left nothing.
C23_TableLoaded ==
    /\ lines_read = Len(codciu)
    /\ codciu = REFERENCE_LINES
    /\ Cardinality({j \in 1..Len(province_to_cities["08"]) :
                       province_to_cities["08"][j] = "Barcelona"}) = 2
    /\ variant_to_cities["barcelona"] = <<"Barcelona">>
    /\ city_to_province["alicante"] = "46"
    /\ province_to_cities["03"] = <<"Alacant", "Alicante">>
    /\ pc = "loading"
    /\ "29" \in DOMAIN province_to_cities

\* A two-digit province code from 01 to 52.
IsProvinceCode(code) == Len(code) = 2 /\ PrefixInRange(code)

\* C24: once a table is loaded, every key of province_to_cities and every
\* value of city_to_province is a two-digit code from 01 to 52.
C24_ProvinceKeysInRange ==
    pc \notin {"loading", "load_failed"} =>
        /\ \A province \in DOMAIN province_to_cities : IsProvinceCode(province)
        /\ \A city \in DOMAIN city_to_province : IsProvinceCode(city_to_province[city])

\* The table with a line 99xGotham is loaded and 99 is a key of the index.
C24_Province99Loaded ==
    /\ pc = "idle"
    /\ lines_read = Len(codciu)
    /\ "99" \in DOMAIN province_to_cities
    /\ city_to_province["gotham"] = "99"

\* C25: once the index is built, no call of PostalCodeValidator.validate, of
\* get_cities_for_province, of get_province_for_city or of
\* AddressPipeline.validate, and no step of one, changes province_to_cities,
\* city_to_province or variant_to_cities.
C25_IndexReadOnly ==
    [][pc # "loading" => index' = index]_vars

\* After calls of AddressPipeline.validate that loaded the language model,
\* the validator's own validate still finds Pozuelo in province 28 through
\* its variant.
C25_MatcherAfterPipeline ==
    /\ model_loaded
    /\ MatcherApplied
    /\ applied.args = <<"Pozuelo", "28001">>
    /\ applied.ret.status = ValidationStatus.VALID
    /\ "pozuelo" \notin DOMAIN city_to_province

\* C26: has_postcode, has_city and has_road are true exactly when the field
\* is not None and not empty after trimming; None, the empty string and a
\* string of whitespace count as absent.
C26_HasFields ==
    applied.fn = "ParsedAddress.has" =>
        /\ applied.ret.has_postcode <=> ~Blank(applied.args[1].postcode)
        /\ applied.ret.has_city <=> ~Blank(applied.args[1].city)
        /\ applied.ret.has_road <=> ~Blank(applied.args[1].road)

\* A city of two spaces counts as present.
C26_BlankCityPresent ==
    /\ applied.fn = "ParsedAddress.has"
    /\ applied.args[1].city = "  "
    /\ applied.ret.has_city

\* --- C27 ----------------------------------------------------------------
\* The calls of the current validate that are not the parser's.
StageCalls == {i \in 1..Len(calls) : calls[i].fn # "parse_address"}

\* The check_nonsense call at position i ended validate: it raised or it
\* returned a nonsense intent.
NonsenseEnded(i) ==
    IF calls[i].raised THEN TRUE ELSE calls[i].ret.intent \in NONSENSE_INTENTS

\* The matcher call at position j returned UNKNOWN_CITY.
ReturnedUnknownCity(j) ==
    IF calls[j].raised THEN FALSE
    ELSE calls[j].ret.status = ValidationStatus.UNKNOWN_CITY

\* C27: inside one validate call the hard rules are checked before the
\* classifier, the matcher or the arbitration is invoked, and a violation
\* means none of them is invoked; check_nonsense is invoked at most once and
\* before the matcher; the matcher runs at most once and never after
\* check_nonsense returned a nonsense intent; validate_city is invoked at most
\* once and only after the matcher returned UNKNOWN_CITY.
C27_StageOrder ==
    LET nonsense == CallsOf("check_nonsense")
        matcher  == CallsOf("postal_validator.validate")
        arbiter  == CallsOf("validate_city")
    IN  /\ pc = "rules" => StageCalls = {}
        /\ (pc \in PastRules /\ reported_violations # {}) => StageCalls = {}
        /\ Cardinality(nonsense) <= 1
        /\ \A i \in nonsense : \A j \in matcher : i < j
        /\ Cardinality(matcher) <= 1
        /\ \A i \in nonsense : NonsenseEnded(i) => matcher = {}
        /\ Cardinality(arbiter) <= 1
        /\ \A k \in arbiter : \E j \in matcher : j < k /\ ReturnedUnknownCity(j)

\* A validate call went through all three: classifier, matcher, arbitration.
C27_AllStagesRan ==
    /\ pc = "returned"
    /\ \E i \in CallsOf("check_nonsense") :
         \E j \in CallsOf("postal_validator.validate") :
           \E k \in CallsOf("validate_city") :
             i < j /\ j < k /\ ~NonsenseEnded(i) /\ ReturnedUnknownCity(j)

\* --- C28 ----------------------------------------------------------------
\* The statuses validate can return for the applied city and postal code,
\* one for every order in which list(set(variants)) can yield the variants.
statuses_over_orders ==
    {postal_validate(applied.args[1], applied.args[2], city_variants).status :
        city_variants \in extract_city_variants(applied.args[1])}

\* C28: for a fixed index, city and postal code, validate returns the same
\* status whatever the order in which extract_city_variants yields the
\* variants.
C28_StatusIndependentOfOrder ==
    (/\ MatcherApplied
     /\ calls_extract_city_variants(applied.args[1], applied.args[2])) =>
        statuses_over_orders = {applied.ret.status}

\* A city whose variants hit cities of different provinces was VALID in this
\* run and is INVALID under another order of the same variants.
C28_OrderDecides ==
    /\ MatcherApplied
    /\ calls_extract_city_variants(applied.args[1], applied.args[2])
    /\ applied.ret.status = ValidationStatus.VALID
    /\ ValidationStatus.INVALID \in statuses_over_orders
    /\ \E i, j \in applied_hits :
         /\ VariantReaches(applied.city_variants[i], applied_province)
         /\ ~VariantReaches(applied.city_variants[j], applied_province)

\* --- C29 ----------------------------------------------------------------
\* The matcher of the current validate returned VALID.
MatcherReturnedValid ==
    \E i \in CallsOf("postal_validator.validate") :
        calls[i].ret.status = ValidationStatus.VALID

\* One of the normalized values of the result is set.
NormalizedSet ==
    result.normalized_city # None \/ result.normalized_postcode # None

\* C29: in every returned result a normalized value is set only if the
\* status is VALID after a matcher VALID, or VALID_NORMALIZED; with
\* INVALID_FORMAT, INVALID_MISMATCH, NONSENSE, NEEDS_REVIEW and the VALID of
\* the fallback both are unset; and a normalized_postcode that is set is the
\* parsed postcode.
C29_NormalizedFields ==
    pc = "returned" =>
        /\ NormalizedSet =>
              \/ result.status = AddressStatus.VALID /\ MatcherReturnedValid
              \/ result.status = AddressStatus.VALID_NORMALIZED
        /\ result.status \in {AddressStatus.INVALID_FORMAT,
                              AddressStatus.INVALID_MISMATCH,
                              AddressStatus.NONSENSE,
                              AddressStatus.NEEDS_REVIEW} => ~NormalizedSet
        /\ (result.status = AddressStatus.VALID /\ ~MatcherReturnedValid) =>
              ~NormalizedSet
        /\ result.normalized_postcode # None =>
              result.normalized_postcode = result.parsed.postcode

\* The arbitration accepted the city under another name: the normalized city
\* is the suggestion, the normalized postcode the parsed one.
C29_SuggestionNormalized ==
    /\ pc = "returned"
    /\ result.status = AddressStatus.VALID_NORMALIZED
    /\ result.normalized_city # None
    /\ result.normalized_city # result.parsed.city
    /\ result.normalized_postcode = result.parsed.postcode
    /\ result.normalized_postcode # None
====
